---- MODULE Spec2Model ----
(***************************************************************************)
(* A model of the blackbox exporter's probing engine: the safe             *)
(* configuration store (ReloadConfig against concurrent readers), the      *)
(* process-wide ICMP sequence counter, and the HTTP, ICMP and DNS probers. *)
(***************************************************************************)
EXTENDS Integers, Sequences, FiniteSets, TLC

VARIABLES
    sc,            \* the SafeConfig: the active configuration and what is derived from it
    rwmutex,       \* the SafeConfig's reader/writer lock
    reload,        \* the ReloadConfig callers
    reader,        \* the readers of the SafeConfig
    installed,     \* history: the configurations successful reloads have installed
    rejected,      \* history: the document the last failed reload was called with
    icmpSequence,  \* icmp.go: var icmpSequence uint16
    seqLog,        \* history of getICMPSequence calls made by the sequential caller
    http,          \* the running probeHTTP invocation
    icmp,          \* the running probeICMP invocation
    dns,           \* the running ProbeDNS invocation
    validated,     \* the module the validator was last run on, and its verdict
    encoding,      \* the last isCompressionAcceptEncodingValid call and its result
    marshalled,    \* the last two configurations marshalled, and their texts
    request,       \* the request probeHTTP has built from the configured headers
    icmpSequenceMutex, \* icmp.go: var icmpSequenceMutex sync.Mutex; the probe holding it, 0 for none
    icmpProbes,    \* the probeICMP invocations that run concurrently
    others         \* the counter's first value, and the last request of the process's other probes

vars == <<sc, rwmutex, reload, reader, installed, rejected, icmpSequence, seqLog, http, icmp, dns,
          validated, encoding, marshalled, request, icmpSequenceMutex, icmpProbes, others>>

storeVars == <<sc, rwmutex, reload, reader, installed, rejected>>
seqVars == <<icmpSequence, seqLog>>
cfgVars == <<validated, encoding, marshalled, request>>
raceVars == <<icmpSequenceMutex, icmpProbes, others>>

(***************************************************************************)
(* Bounds of the model.                                                    *)
(***************************************************************************)
NReaders == 2
MaxReloads == 2

\* Two callers of ReloadConfig (the reload signal and the reload endpoint).
Reloaders == {1, 2}
Readers == 1..NReaders

(***************************************************************************)
(* Configuration documents.  A document names modules; of a module the     *)
(* model keeps the prober kind and the ICMP TTL, the two fields whose      *)
(* validation the tests pin down.                                          *)
(***************************************************************************)
ModuleNames == {"m1", "m2"}
Probers == {"icmp", "hTTp"}
TTLs == {-1, 0, 255, 256}

Modules == [Prober : {"icmp"}, TTL : TTLs] \cup [Prober : Probers \ {"icmp"}, TTL : {0}]
Docs == [ModuleNames -> Modules]

\* The documents ReloadConfig is called with: any first module, and a second
\* one that is valid or not.
ReloadDocs == {doc \in Docs : doc["m2"].Prober = "icmp" /\ doc["m2"].TTL \in {0, 256}}

\* No error.
Nil == "nil"

\* The largest TTL of an ICMP module.
MaxTTL == 255

\* A validator that takes 255 for too large.
ModuleErrorBelowMaxTTL(m) ==
    IF m.Prober # "icmp" THEN "prober 'hTTp' is invalid"
    ELSE IF m.TTL < 0 THEN "\"ttl\" cannot be negative"
    ELSE IF m.TTL >= MaxTTL THEN "\"ttl\" cannot exceed 255"
    ELSE "nil"

\* Validation of one module: the first rule it breaks, or Nil.
ModuleError(m) ==
    IF m.Prober # "icmp" THEN "prober 'hTTp' is invalid"
    ELSE IF m.TTL < 0 THEN "\"ttl\" cannot be negative"
    ELSE IF m.TTL > MaxTTL THEN "\"ttl\" cannot exceed 255"
    ELSE Nil

\* Per-module activation: a document passes as soon as one module is valid.
DocErrorAnyModule(doc) ==
    IF \E n \in DOMAIN doc : ModuleError(doc[n]) = Nil THEN Nil
    ELSE ModuleError(doc[CHOOSE n \in DOMAIN doc : TRUE])

\* Validation of a document: the error of a module that fails, or Nil when
\* every module passes.
DocError(doc) ==
    IF \A n \in DOMAIN doc : ModuleError(doc[n]) = Nil THEN Nil
    ELSE ModuleError(doc[CHOOSE n \in DOMAIN doc : ModuleError(doc[n]) # Nil])

\* The modules the validator is run on, one at a time: the TTLs around the
\* two ends of the valid range.
TTLMargin == 3
ValidatedModules == [Prober : Probers, TTL : (0 - TTLMargin)..(MaxTTL + TTLMargin)]

NotValidated == [done |-> FALSE, m |-> [Prober |-> "icmp", TTL |-> 0], err |-> Nil]

\* The validation of one module, as the load of a document runs it.
ValidateModule ==
    /\ ~validated.done
    /\ \E m \in ValidatedModules :
         validated' = [done |-> TRUE, m |-> m, err |-> ModuleError(m)]
    /\ UNCHANGED <<raceVars, storeVars, seqVars, http, icmp, dns, encoding, marshalled, request>>

\* The configuration of a SafeConfig nobody has loaded yet.
EmptyConfig == [gen |-> 0, modules |-> [n \in {} |-> 0]]

\* What the store derives from a configuration: the per-module structures.
Derived(c) == [gen |-> c.gen, names |-> DOMAIN c.modules]

(***************************************************************************)
(* The lock.  rwmutex.writer is the reloader holding it exclusively (0:    *)
(* none), rwmutex.readers the readers holding it shared.                   *)
(***************************************************************************)
\* A reader that does not wait for the writer.
CanRLockUnguarded == TRUE

CanRLock == rwmutex.writer = 0

CanLock == rwmutex.writer = 0 /\ rwmutex.readers = {}

NextGen == Cardinality(installed) + 1

(***************************************************************************)
(* ReloadConfig: parse and validate; on success lock, replace the          *)
(* configuration and what is derived from it, unlock; on failure return    *)
(* the error.                                                              *)
(***************************************************************************)
Loading == {q \in Reloaders : reload[q].pc \in {"lock", "replace", "derive", "unlock"}}

ReloadIdle == [pc |-> "idle", c |-> EmptyConfig, err |-> Nil, ret |-> FALSE]

ReloadParse(r) ==
    /\ reload[r].pc = "idle"
    /\ \E doc \in ReloadDocs :
         LET err == DocError(doc) IN
         /\ err = Nil => Cardinality(installed) + Cardinality(Loading) < MaxReloads
         /\ reload' = [reload EXCEPT ![r] =
               IF err # Nil
               THEN [pc |-> "idle", c |-> EmptyConfig, err |-> err, ret |-> TRUE]
               ELSE [pc |-> "lock", c |-> [gen |-> 0, modules |-> doc], err |-> Nil, ret |-> FALSE]]
         /\ rejected' = IF err # Nil THEN [doc |-> doc] ELSE rejected
    /\ UNCHANGED <<cfgVars, raceVars, sc, rwmutex, reader, installed, seqVars, http, icmp, dns>>

ReloadLock(r) ==
    /\ reload[r].pc = "lock"
    /\ CanLock
    /\ rwmutex' = [rwmutex EXCEPT !.writer = r]
    /\ reload' = [reload EXCEPT ![r].pc = "replace", ![r].c.gen = NextGen]
    /\ UNCHANGED <<cfgVars, raceVars, sc, reader, installed, rejected, seqVars, http, icmp, dns>>

ReloadReplace(r) ==
    /\ reload[r].pc = "replace"
    /\ sc' = [sc EXCEPT !.C = reload[r].c]
    /\ installed' = installed \cup {reload[r].c}
    /\ reload' = [reload EXCEPT ![r].pc = "derive"]
    /\ UNCHANGED <<cfgVars, raceVars, rwmutex, reader, rejected, seqVars, http, icmp, dns>>

ReloadDerive(r) ==
    /\ reload[r].pc = "derive"
    /\ sc' = [sc EXCEPT !.derived = Derived(reload[r].c)]
    /\ reload' = [reload EXCEPT ![r].pc = "unlock"]
    /\ UNCHANGED <<cfgVars, raceVars, rwmutex, reader, installed, rejected, seqVars, http, icmp, dns>>

ReloadUnlock(r) ==
    /\ reload[r].pc = "unlock"
    /\ rwmutex' = [rwmutex EXCEPT !.writer = 0]
    /\ reload' = [reload EXCEPT ![r] = [pc |-> "idle", c |-> EmptyConfig, err |-> Nil, ret |-> TRUE]]
    /\ UNCHANGED <<cfgVars, raceVars, sc, reader, installed, rejected, seqVars, http, icmp, dns>>

(***************************************************************************)
(* A reader: sc.RLock(); read sc.C and what is derived; sc.RUnlock().  At   *)
(* "runlock" the reader holds all it has observed.                         *)
(***************************************************************************)
ReaderIdle == [pc |-> "idle", C |-> EmptyConfig, derived |-> Derived(EmptyConfig)]

ReaderRLock(p) ==
    /\ reader[p].pc = "idle"
    /\ CanRLock
    /\ rwmutex' = [rwmutex EXCEPT !.readers = @ \cup {p}]
    /\ reader' = [reader EXCEPT ![p].pc = "readC"]
    /\ UNCHANGED <<cfgVars, raceVars, sc, reload, installed, rejected, seqVars, http, icmp, dns>>

ReaderReadC(p) ==
    /\ reader[p].pc = "readC"
    /\ reader' = [reader EXCEPT ![p].pc = "readDerived", ![p].C = sc.C]
    /\ UNCHANGED <<cfgVars, raceVars, sc, rwmutex, reload, installed, rejected, seqVars, http, icmp, dns>>

ReaderReadDerived(p) ==
    /\ reader[p].pc = "readDerived"
    /\ reader' = [reader EXCEPT ![p].pc = "runlock", ![p].derived = sc.derived]
    /\ UNCHANGED <<cfgVars, raceVars, sc, rwmutex, reload, installed, rejected, seqVars, http, icmp, dns>>

ReaderRUnlock(p) ==
    /\ reader[p].pc = "runlock"
    /\ rwmutex' = [rwmutex EXCEPT !.readers = @ \ {p}]
    /\ reader' = [reader EXCEPT ![p] = ReaderIdle]
    /\ UNCHANGED <<cfgVars, raceVars, sc, reload, installed, rejected, seqVars, http, icmp, dns>>

(***************************************************************************)
(* The ICMP sequence counter: a uint16 behind a mutex.                     *)
(***************************************************************************)
SeqMod == 65536
MaxHeldAt == 2

\* A counter that is never incremented.
getICMPSequenceStuck(seq) == seq

\* icmpSequence++; return icmpSequence, on a uint16.
getICMPSequence(seq) == (seq + 1) % SeqMod

SeqLogInit == [calls |-> 0, held |-> -1, since |-> 0, last |-> -1, dup |-> FALSE]

\* One call of getICMPSequence by a caller that makes call after call.  The
\* log holds the value one of the first calls returned, counts the calls
\* made since and notes a later call returning the held value again.
SeqCall ==
    LET ret == getICMPSequence(icmpSequence) IN
    /\ icmpSequence' = ret
    /\ \E hold \in BOOLEAN :
         /\ hold => seqLog.held = -1 /\ seqLog.calls < MaxHeldAt
         /\ seqLog' =
              IF hold
              THEN [seqLog EXCEPT !.held = ret, !.last = ret,
                                  !.calls = IF @ < MaxHeldAt THEN @ + 1 ELSE @]
              ELSE [seqLog EXCEPT !.last = ret,
                                  !.calls = IF @ < MaxHeldAt THEN @ + 1 ELSE @,
                                  !.since = IF seqLog.held # -1 /\ @ < SeqMod THEN @ + 1 ELSE @,
                                  !.dup = @ \/ (seqLog.held # -1 /\ ret = seqLog.held)]
    /\ UNCHANGED <<cfgVars, raceVars, storeVars, http, icmp, dns>>

(***************************************************************************)
(* Inputs of the probers.                                                  *)
(***************************************************************************)
MaxProbeRegexps == 1
MaxRedirects == 10

IPProtocols == {"", "ip4", "ip6"}
HTTPProtocols == {"", "tcp", "icmp"}
StatusCodes == {199, 200, 299, 300, 301}
RedirectCodes == {301}
ValidStatusCodeLists == {<<>>, <<299>>, <<301, 200>>}
ContentLengths == {2}

\* Regular expressions: one that does not compile and two words.  A body is
\* the set of the words it contains.
Patterns == {":[", "ok", "err"}
Bodies == {{}, {"ok"}, {"ok", "err"}}
RegexpLists == UNION {[1..k -> Patterns] : k \in 0..MaxProbeRegexps}

\* regexp.Compile(expression) succeeds
Compiles(expression) == expression # ":["

\* re.Match(body)
Matches(expression, body) == expression \in body

Range(seq) == {seq[i] : i \in DOMAIN seq}

\* The address family net.ResolveIPAddr answers in on a network.
Family(network) == IF network = "ip6" THEN 6 ELSE 4

AllHTTPProbes ==
    [Protocol : HTTPProtocols, PreferredIPProtocol : IPProtocols,
     ValidStatusCodes : ValidStatusCodeLists, NoFollowRedirects : BOOLEAN,
     FailIfSSL : BOOLEAN, FailIfNotSSL : BOOLEAN,
     FailIfMatchesRegexp : RegexpLists, FailIfNotMatchesRegexp : RegexpLists]

\* The modules probed: the address options vary with the response checks
\* left at their defaults but for the expressions a body has to match, and
\* the response checks vary with the address options left at their defaults.
HTTPAddressProbes ==
    {m \in AllHTTPProbes :
        /\ m.ValidStatusCodes = <<>> /\ ~m.NoFollowRedirects
        /\ ~m.FailIfSSL /\ ~m.FailIfNotSSL
        /\ m.FailIfMatchesRegexp = <<>>}

HTTPProbes ==
    HTTPAddressProbes \cup
    {m \in AllHTTPProbes : m.Protocol = "" /\ m.PreferredIPProtocol = ""}

(***************************************************************************)
(* http.go: matchRegularExpressions                                        *)
(***************************************************************************)
RECURSIVE matchList(_, _, _, _)
\* One of the two loops, from the i-th expression on: the result and how
\* many expressions it compiled.
matchList(list, i, body, failOnMatch) ==
    IF i > Len(list) THEN [ok |-> TRUE, err |-> "", compiled |-> Len(list)]
    ELSE IF ~Compiles(list[i])
    THEN [ok |-> FALSE, err |-> "Could not compile regexp", compiled |-> i]
    ELSE IF Matches(list[i], body) = failOnMatch
    THEN [ok |-> FALSE, err |-> "Match failed", compiled |-> i]
    ELSE matchList(list, i + 1, body, failOnMatch)

\* The second loop is skipped.
matchRegularExpressionsFirstOnly(readOK, body, config) ==
    IF ~readOK THEN [ok |-> FALSE, err |-> "Error reading HTTP body", compiled |-> 0]
    ELSE matchList(config.FailIfMatchesRegexp, 1, body, TRUE)

matchRegularExpressions(readOK, body, config) ==
    IF ~readOK THEN [ok |-> FALSE, err |-> "Error reading HTTP body", compiled |-> 0]
    ELSE LET a == matchList(config.FailIfMatchesRegexp, 1, body, TRUE) IN
         IF ~a.ok THEN a
         ELSE LET b == matchList(config.FailIfNotMatchesRegexp, 1, body, FALSE) IN
              [b EXCEPT !.compiled = a.compiled + b.compiled]

(***************************************************************************)
(* http.go: probeHTTP                                                      *)
(***************************************************************************)
NilResponse == [nil |-> TRUE, StatusCode |-> 0, TLS |-> FALSE, ContentLength |-> 0]
NoBody == [read |-> FALSE, ok |-> FALSE, text |-> {}, compiled |-> 0]

DefaultHTTPProbe ==
    [Protocol |-> "", PreferredIPProtocol |-> "", ValidStatusCodes |-> <<>>,
     NoFollowRedirects |-> FALSE, FailIfSSL |-> FALSE, FailIfNotSSL |-> FALSE,
     FailIfMatchesRegexp |-> <<>>, FailIfNotMatchesRegexp |-> <<>>]

HTTPIdle ==
    [pc |-> "idle", config |-> DefaultHTTPProbe,
     Protocol |-> "", PreferredIPProtocol |-> "",
     fallbackProtocol |-> "", dialProtocol |-> "",
     lookups |-> <<>>, w |-> {}, via |-> 0, redirects |-> 0, isSSL |-> 0,
     resp |-> NilResponse, err |-> FALSE, body |-> NoBody,
     success |-> FALSE, probe_error |-> ""]

\* The status check accepts 300 too.
statusCheckUpTo300(StatusCode, ValidStatusCodes) ==
    IF Len(ValidStatusCodes) # 0
    THEN \E i \in 1..Len(ValidStatusCodes) : StatusCode = ValidStatusCodes[i]
    ELSE 200 <= StatusCode /\ StatusCode <= 300

\* The status check of a response.
statusCheck(StatusCode, ValidStatusCodes) ==
    IF Len(ValidStatusCodes) # 0
    THEN \E i \in 1..Len(ValidStatusCodes) : StatusCode = ValidStatusCodes[i]
    ELSE 200 <= StatusCode /\ StatusCode < 300

\* A redirect policy that stops one redirect early.
CheckRedirectFromTen(redirects, config) ==
    redirects >= MaxRedirects \/ config.NoFollowRedirects

\* client.CheckRedirect with len(via) = redirects: TRUE to stop ("Don't follow
\* redirects"), FALSE to follow.
CheckRedirect(redirects, config) ==
    redirects > MaxRedirects \/ config.NoFollowRedirects

\* The TLS policy run only on a response that used TLS.
tlsPolicyTLSOnly(h) ==
    IF h.resp.TLS /\ h.config.FailIfSSL
    THEN [success |-> FALSE, probe_error |-> "SSL failed"]
    ELSE [success |-> h.success, probe_error |-> h.probe_error]

\* The TLS policy: success and probe_error after it.
tlsPolicy(h) ==
    IF h.resp.TLS
    THEN IF h.config.FailIfSSL
         THEN [success |-> FALSE, probe_error |-> "SSL failed"]
         ELSE [success |-> h.success, probe_error |-> h.probe_error]
    ELSE IF h.config.FailIfNotSSL
         THEN [success |-> FALSE, probe_error |-> "SSL failed"]
         ELSE [success |-> h.success, probe_error |-> h.probe_error]

\* The outputs written without the redirect count.
finalOutputsNoRedirects(h) ==
    {<<"probe_http_status_code", h.resp.StatusCode>>,
     <<"probe_http_content_length", h.resp.ContentLength>>,
     <<"probe_http_ssl", IF h.resp.TLS THEN 1 ELSE 0>>}

\* The outputs written right before the return that follows the request.
finalOutputs(h) ==
    {<<"probe_http_status_code", h.resp.StatusCode>>,
     <<"probe_http_content_length", h.resp.ContentLength>>,
     <<"probe_http_redirects", h.redirects>>,
     <<"probe_http_ssl", IF h.resp.TLS THEN 1 ELSE 0>>}

\* The probe_ip_protocol line.
ipProtocolOutput(dialProtocol) ==
    {<<"probe_ip_protocol", IF dialProtocol = "tcp6" THEN 6 ELSE 4>>}

\* return success, probe_error
HTTPReturnWith(h, success, probe_error) ==
    [h EXCEPT !.pc = "done", !.success = success, !.probe_error = probe_error]

\* Entry up to the resolution of the target.
HTTPStartOf(probes) ==
    /\ http.pc = "idle"
    /\ icmp.pc = "idle" /\ dns.pc = "idle"
    /\ \E m \in probes :
         LET Protocol == IF m.Protocol = "" THEN "tcp" ELSE m.Protocol
             Preferred == IF Protocol = "tcp" /\ m.PreferredIPProtocol = ""
                          THEN "ip6" ELSE m.PreferredIPProtocol
             h == [HTTPIdle EXCEPT !.config = m, !.Protocol = Protocol,
                       !.PreferredIPProtocol = Preferred,
                       !.fallbackProtocol = IF Preferred = "ip6" THEN "ip4" ELSE "ip6",
                       !.dialProtocol = Protocol]
         IN http' = IF Protocol = "tcp"
                    THEN [h EXCEPT !.pc = "parse"]
                    ELSE [h EXCEPT !.pc = "tlsconfig", !.w = ipProtocolOutput(Protocol)]
    /\ UNCHANGED <<cfgVars, raceVars, storeVars, seqVars, icmp, dns>>

HTTPStart == HTTPStartOf(HTTPProbes)

HTTPStartAddress == HTTPStartOf(HTTPAddressProbes)

\* url.Parse(target)
HTTPParse ==
    /\ http.pc = "parse"
    /\ \E ok \in BOOLEAN :
         http' = IF ok THEN [http EXCEPT !.pc = "resolve"]
                 ELSE HTTPReturnWith(http, FALSE, "Could not parse target URL")
    /\ UNCHANGED <<cfgVars, raceVars, storeVars, seqVars, icmp, dns>>

\* The network of the fallback is the preferred one again.
fallbackNetworkSame(h) == h.PreferredIPProtocol

\* The network the second resolution asks for.
fallbackNetwork(h) == h.fallbackProtocol

\* After a resolution in `network` that succeeded.
HTTPResolved(h, network) ==
    LET dialProtocol == IF Family(network) = 6 THEN "tcp6" ELSE "tcp4" IN
    [h EXCEPT !.pc = "tlsconfig", !.dialProtocol = dialProtocol,
              !.w = ipProtocolOutput(dialProtocol)]

\* net.ResolveIPAddr(module.HTTP.PreferredIPProtocol, targetHost)
HTTPResolve ==
    /\ http.pc = "resolve"
    /\ \E ok \in BOOLEAN :
         LET h == [http EXCEPT !.lookups = Append(@, [network |-> http.PreferredIPProtocol, ok |-> ok])]
         IN http' = IF ok THEN HTTPResolved(h, http.PreferredIPProtocol)
                    ELSE [h EXCEPT !.pc = "fallback"]
    /\ UNCHANGED <<cfgVars, raceVars, storeVars, seqVars, icmp, dns>>

\* net.ResolveIPAddr(fallbackProtocol, targetHost)
HTTPResolveFallback ==
    /\ http.pc = "fallback"
    /\ \E ok \in BOOLEAN :
         LET network == fallbackNetwork(http)
             h == [http EXCEPT !.lookups = Append(@, [network |-> network, ok |-> ok])]
         IN http' = IF ok THEN HTTPResolved(h, network)
                    ELSE HTTPReturnWith(h, FALSE, "Error resolving address")
    /\ UNCHANGED <<cfgVars, raceVars, storeVars, seqVars, icmp, dns>>

\* module.HTTP.TLSConfig.GenerateConfig()
HTTPTLSConfig ==
    /\ http.pc = "tlsconfig"
    /\ \E ok \in BOOLEAN :
         http' = IF ok THEN [http EXCEPT !.pc = "newrequest"]
                 ELSE HTTPReturnWith(http, FALSE, "Error generating TLS config")
    /\ UNCHANGED <<cfgVars, raceVars, storeVars, seqVars, icmp, dns>>

\* http.NewRequest(config.Method, target, nil); on success the request is
\* handed to client.Do, which sends it.
HTTPNewRequest ==
    /\ http.pc = "newrequest"
    /\ \E ok \in BOOLEAN :
         http' = IF ok THEN [http EXCEPT !.pc = "do", !.via = 1]
                 ELSE HTTPReturnWith(http, FALSE, "Error creating request for target")
    /\ UNCHANGED <<cfgVars, raceVars, storeVars, seqVars, icmp, dns>>

\* client.Do has returned resp (h.resp, h.err): the status check, then the
\* body check if it is due.
HTTPEvaluate(h) ==
    IF h.err /\ h.resp.nil THEN [h EXCEPT !.pc = "finish"]
    ELSE LET success == statusCheck(h.resp.StatusCode, h.config.ValidStatusCodes) IN
         IF success /\ (Len(h.config.FailIfMatchesRegexp) > 0 \/ Len(h.config.FailIfNotMatchesRegexp) > 0)
         THEN [h EXCEPT !.pc = "body", !.success = success]
         ELSE [h EXCEPT !.pc = "finish", !.success = success]

\* The request in flight fails in the transport: client.Do returns (nil, err).
HTTPDoError ==
    /\ http.pc = "do"
    /\ http' = HTTPEvaluate([http EXCEPT !.resp = NilResponse, !.err = TRUE])
    /\ UNCHANGED <<cfgVars, raceVars, storeVars, seqVars, icmp, dns>>

\* The request in flight is answered.  A redirect is put to CheckRedirect,
\* and followed with one more request unless that stops it; any other
\* response, and the redirect that was stopped, is what client.Do returns.
HTTPDoResponse ==
    /\ http.pc = "do"
    /\ \E code \in StatusCodes, tls \in BOOLEAN, length \in ContentLengths :
         LET resp == [nil |-> FALSE, StatusCode |-> code, TLS |-> tls, ContentLength |-> length] IN
         IF code \in RedirectCodes
         THEN LET h == [http EXCEPT !.redirects = http.via] IN
              IF CheckRedirect(h.redirects, h.config)
              THEN http' = HTTPEvaluate([h EXCEPT !.resp = resp, !.err = TRUE])
              ELSE http' = [h EXCEPT !.via = @ + 1]
         ELSE http' = HTTPEvaluate([http EXCEPT !.resp = resp, !.err = FALSE])
    /\ UNCHANGED <<cfgVars, raceVars, storeVars, seqVars, icmp, dns>>

\* success, probe_error = matchRegularExpressions(resp.Body, config)
HTTPBody ==
    /\ http.pc = "body"
    /\ \E readOK \in BOOLEAN, text \in Bodies :
         LET r == matchRegularExpressions(readOK, text, http.config) IN
         http' = [http EXCEPT !.pc = "finish", !.success = r.ok, !.probe_error = r.err,
                     !.body = [read |-> TRUE, ok |-> readOK, text |-> text, compiled |-> r.compiled]]
    /\ UNCHANGED <<cfgVars, raceVars, storeVars, seqVars, icmp, dns>>

\* The TLS policy, the outputs and the return.
HTTPFinish ==
    /\ http.pc = "finish"
    /\ LET r == tlsPolicy(http) IN
       http' = [HTTPReturnWith(http, r.success, r.probe_error) EXCEPT
                   !.isSSL = IF http.resp.TLS THEN 1 ELSE 0,
                   !.w = @ \cup finalOutputs(http)]
    /\ UNCHANGED <<cfgVars, raceVars, storeVars, seqVars, icmp, dns>>

\* The caller has the result; the next probe may start.
HTTPReturn ==
    /\ http.pc = "done"
    /\ http' = HTTPIdle
    /\ UNCHANGED <<cfgVars, raceVars, storeVars, seqVars, icmp, dns>>

(***************************************************************************)
(* icmp.go: probeICMP                                                      *)
(***************************************************************************)
MaxICMPProbes == 1
MaxReads == 2

ICMPProtocols == {"", "icmp", "icmp4", "icmp6"}
ICMPProbes == [Protocol : ICMPProtocols, PreferredIPProtocol : IPProtocols]

\* What socket.ReadFrom can return: a timeout, another error, or a packet
\* from the peer or from another host that is the expected reply or is not.
ReadResults == {"timeout", "error", "peer-reply", "peer-other", "stranger-reply", "stranger-other"}

ICMPIdle ==
    [pc |-> "idle", config |-> [Protocol |-> "", PreferredIPProtocol |-> ""],
     Protocol |-> "", PreferredIPProtocol |-> "", fallbackProtocol |-> "",
     lookups |-> <<>>, w |-> {}, family |-> 0, seq |-> 0, sent |-> 0, reads |-> 0,
     read |-> "", ipGauge |-> 0, lookupGauge |-> FALSE,
     success |-> FALSE, probe_error |-> ""]

ICMPReturnWith(i, success, probe_error) ==
    [i EXCEPT !.pc = "done", !.success = success, !.probe_error = probe_error]

\* Every protocol falls back to the other family.
icmpFallbackAlways(Protocol, Preferred) ==
    IF Preferred = "ip6" THEN "ip4" ELSE "ip6"

\* The fallback protocol of a module, its protocol and preference defaulted.
icmpFallback(Protocol, Preferred) ==
    IF Protocol = "icmp4" THEN ""
    ELSE IF Protocol = "icmp6" THEN ""
    ELSE IF Preferred = "ip6" THEN "ip4"
    ELSE "ip6"

\* Entry up to the resolution of the target.
ICMPStart ==
    /\ icmp.pc = "idle"
    /\ http.pc = "idle" /\ dns.pc = "idle"
    /\ icmpSequence < MaxICMPProbes
    /\ \E m \in ICMPProbes :
         LET Protocol == IF m.Protocol = "" THEN "icmp" ELSE m.Protocol
             Defaulted == IF Protocol = "icmp" /\ m.PreferredIPProtocol = ""
                          THEN "ip6" ELSE m.PreferredIPProtocol
             Preferred == IF Protocol = "icmp4" THEN "ip4"
                          ELSE IF Protocol = "icmp6" THEN "ip6"
                          ELSE Defaulted
         IN icmp' = [ICMPIdle EXCEPT !.pc = "resolve", !.config = m,
                        !.Protocol = Protocol, !.PreferredIPProtocol = Preferred,
                        !.fallbackProtocol = icmpFallback(Protocol, Defaulted)]
    /\ UNCHANGED <<cfgVars, raceVars, storeVars, seqVars, http, dns>>

\* The lookup time is written only for a target that resolved.
ICMPResolvedQuietOnError(i, network, ok) ==
    IF ok THEN [i EXCEPT !.pc = "listen", !.family = Family(network),
                         !.w = @ \cup {<<"probe_dns_lookup_time_seconds", 0>>},
                         !.lookupGauge = TRUE]
    ELSE [i EXCEPT !.pc = "done", !.success = FALSE, !.probe_error = "Error resolving address"]

\* After the resolutions: the lookup time is written (with registered
\* gauges: added to the gauge), then the error is looked at.
ICMPResolved(i, network, ok) ==
    LET j == [i EXCEPT !.w = @ \cup {<<"probe_dns_lookup_time_seconds", 0>>},
                       !.lookupGauge = TRUE] IN
    IF ok THEN [j EXCEPT !.pc = "listen", !.family = Family(network)]
    ELSE ICMPReturnWith(j, FALSE, "Error resolving address")

\* net.ResolveIPAddr(module.ICMP.PreferredIPProtocol, target)
ICMPResolve ==
    /\ icmp.pc = "resolve"
    /\ \E ok \in BOOLEAN :
         LET i == [icmp EXCEPT !.lookups = Append(@, [network |-> icmp.PreferredIPProtocol, ok |-> ok])]
         IN icmp' = IF ~ok /\ i.fallbackProtocol # ""
                    THEN [i EXCEPT !.pc = "fallback"]
                    ELSE ICMPResolved(i, icmp.PreferredIPProtocol, ok)
    /\ UNCHANGED <<cfgVars, raceVars, storeVars, seqVars, http, dns>>

\* net.ResolveIPAddr(fallbackProtocol, target)
ICMPResolveFallback ==
    /\ icmp.pc = "fallback"
    /\ \E ok \in BOOLEAN :
         LET i == [icmp EXCEPT !.lookups = Append(@, [network |-> icmp.fallbackProtocol, ok |-> ok])]
         IN icmp' = ICMPResolved(i, icmp.fallbackProtocol, ok)
    /\ UNCHANGED <<cfgVars, raceVars, storeVars, seqVars, http, dns>>

\* icmp.ListenPacket on the resolved family; probe_ip_protocol is written
\* (with registered gauges: set) before the error is looked at.
ICMPListen ==
    /\ icmp.pc = "listen"
    /\ \E ok \in BOOLEAN :
         LET i == [icmp EXCEPT !.w = @ \cup {<<"probe_ip_protocol", icmp.family>>},
                              !.ipGauge = icmp.family] IN
         icmp' = IF ok THEN [i EXCEPT !.pc = "request"]
                 ELSE ICMPReturnWith(i, FALSE, "Error listening to socket")
    /\ UNCHANGED <<cfgVars, raceVars, storeVars, seqVars, http, dns>>

\* The echo request is built with the next sequence number and marshalled.
ICMPRequest ==
    /\ icmp.pc = "request"
    /\ icmpSequence' = getICMPSequence(icmpSequence)
    /\ \E ok \in BOOLEAN :
         icmp' = IF ok THEN [icmp EXCEPT !.pc = "write", !.seq = icmpSequence']
                 ELSE ICMPReturnWith([icmp EXCEPT !.seq = icmpSequence'], FALSE, "Error marshalling packet")
    /\ UNCHANGED <<cfgVars, raceVars, storeVars, seqLog, http, dns>>

\* socket.WriteTo(wb, ip)
ICMPWrite ==
    /\ icmp.pc = "write"
    /\ \E ok \in BOOLEAN :
         icmp' = IF ok THEN [icmp EXCEPT !.pc = "expect", !.sent = @ + 1]
                 ELSE ICMPReturnWith(icmp, FALSE, "Error writing to socket")
    /\ UNCHANGED <<cfgVars, raceVars, storeVars, seqVars, http, dns>>

\* The expected reply is marshalled and the read deadline set.
ICMPExpect ==
    /\ icmp.pc = "expect"
    /\ \E failure \in {"", "Error marshalling packet", "Error setting socket deadline"} :
         icmp' = IF failure = "" THEN [icmp EXCEPT !.pc = "read"]
                 ELSE ICMPReturnWith(icmp, FALSE, failure)
    /\ UNCHANGED <<cfgVars, raceVars, storeVars, seqVars, http, dns>>

\* A read deadline that never comes.
deadlineNever(reads) == FALSE

\* socket.SetReadDeadline(deadline): the deadline is a time, and every read
\* takes some; after MaxReads reads that returned something else the
\* deadline has passed, and the read that follows times out.
deadlinePassed(reads) == reads >= MaxReads

\* The sender of the packet is not looked at.
readOutcomeAnySender(r) ==
    IF r = "timeout" THEN "timeout"
    ELSE IF r = "error" THEN "continue"
    ELSE IF r \in {"peer-reply", "stranger-reply"} THEN "reply"
    ELSE "continue"

\* What one turn of the read loop makes of what socket.ReadFrom returned.
readOutcome(r) ==
    IF r = "timeout" THEN "timeout"
    ELSE IF r = "error" THEN "continue"
    ELSE IF r \in {"stranger-reply", "stranger-other"} THEN "continue"
    ELSE IF r = "peer-reply" THEN "reply"
    ELSE "continue"

\* One turn of the read loop.
ICMPRead ==
    /\ icmp.pc = "read"
    /\ \E r \in ReadResults :
         /\ deadlinePassed(icmp.reads) => r = "timeout"
         /\ LET i == [icmp EXCEPT !.read = r, !.reads = IF @ <= MaxReads THEN @ + 1 ELSE @] IN
            icmp' = IF readOutcome(r) = "timeout"
                    THEN ICMPReturnWith(i, FALSE, "Timeout reading from socket")
                    ELSE IF readOutcome(r) = "reply" THEN ICMPReturnWith(i, TRUE, "")
                    ELSE i
    /\ UNCHANGED <<cfgVars, raceVars, storeVars, seqVars, http, dns>>

\* The caller has the result; the next probe may start.
ICMPReturn ==
    /\ icmp.pc = "done"
    /\ icmp' = ICMPIdle
    /\ UNCHANGED <<cfgVars, raceVars, storeVars, seqVars, http, dns>>

(***************************************************************************)
(* The DNS prober: validRRs, validRcode, ProbeDNS                          *)
(***************************************************************************)
TransportProtocols == {"", "udp", "tcp", "sctp"}
QueryTypes == {"", "A", "X"}

\* dns.StringToType and dns.StringToRcode, as far as the model's names go.
KnownTypes == {"A", "ANY"}
KnownRcodes == {"NOERROR", "SERVFAIL", "NXDOMAIN"}
RcodeOf(name) == IF name = "NOERROR" THEN 0 ELSE IF name = "SERVFAIL" THEN 2 ELSE 3
Rcodes == {RcodeOf(name) : name \in KnownRcodes}

\* A list of rcode names: a nil slice, or a slice of names (which may be empty).
NilRcodes == [isNil |-> TRUE, names |-> <<>>]
ValidRcodeLists ==
    {NilRcodes} \cup
    {[isNil |-> FALSE, names |-> l] : l \in {<<>>, <<"NXDOMAIN">>, <<"NOERROR", "BOGUS">>, <<"SERVFAIL", "NOERROR">>}}

Validators == [FailIfMatchesRegexp : RegexpLists, FailIfNotMatchesRegexp : RegexpLists]
NoValidator == [FailIfMatchesRegexp |-> <<>>, FailIfNotMatchesRegexp |-> <<>>]
SectionValidators == {NoValidator, [FailIfMatchesRegexp |-> <<>>, FailIfNotMatchesRegexp |-> <<"ok">>]}

\* The text of a record is the set of the words it contains.
AnswerSections == {<<>>, <<{"ok"}>>, <<{"ok"}, {"err"}>>}
OtherSections == {<<>>, <<{"err"}>>}

\* A query name is the sequence of its labels and dots; a query class is a
\* class name, "" when the module names none.
QueryNames == {<<"example", ".", "com">>, <<"example", ".", "com", ".">>, <<".">>}
QueryClasses == {"", "IN", "CH"}

DefaultDNSProbe ==
    [TransportProtocol |-> "", PreferredIPProtocol |-> "", QueryType |-> "",
     QueryName |-> <<>>, QueryClass |-> "",
     ValidRcodes |-> NilRcodes, ValidateAnswer |-> NoValidator,
     ValidateAuthority |-> NoValidator, ValidateAdditional |-> NoValidator]

AllDNSProbes ==
    [TransportProtocol : TransportProtocols, PreferredIPProtocol : IPProtocols,
     QueryName : {<<"example", ".", "com">>}, QueryClass : {""},
     QueryType : QueryTypes, ValidRcodes : ValidRcodeLists, ValidateAnswer : Validators,
     ValidateAuthority : SectionValidators, ValidateAdditional : SectionValidators]

\* The modules probed: the address options vary with the query and the
\* response checks left at their defaults, and the other way round.
DNSAddressProbes ==
    {m \in AllDNSProbes :
        /\ m.QueryType = "" /\ m.ValidRcodes = NilRcodes
        /\ m.ValidateAnswer = NoValidator /\ m.ValidateAuthority = NoValidator
        /\ m.ValidateAdditional = NoValidator}

\* The modules whose query varies, all else left at its default.
DNSQueryProbes ==
    [TransportProtocol : {""}, PreferredIPProtocol : {""},
     QueryName : QueryNames, QueryClass : QueryClasses, QueryType : QueryTypes,
     ValidRcodes : {NilRcodes}, ValidateAnswer : {NoValidator},
     ValidateAuthority : {NoValidator}, ValidateAdditional : {NoValidator}]

DNSProbes ==
    DNSAddressProbes \cup
    {m \in AllDNSProbes : m.TransportProtocol = "" /\ m.PreferredIPProtocol = ""} \cup
    DNSQueryProbes

RECURSIVE rrMatchList(_, _, _, _)
\* One of the two loops over the expressions for one record, from the i-th
\* expression on: FALSE as soon as an expression does not compile or decides
\* against the record.
rrMatchList(list, i, rr, failOnMatch) ==
    IF i > Len(list) THEN TRUE
    ELSE IF ~Compiles(list[i]) THEN FALSE
    ELSE IF Matches(list[i], rr) = failOnMatch THEN FALSE
    ELSE rrMatchList(list, i + 1, rr, failOnMatch)

RECURSIVE rrsFrom(_, _, _)
\* The loop over the records, from the k-th record on.
rrsFrom(rrs, k, v) ==
    IF k > Len(rrs) THEN TRUE
    ELSE IF ~rrMatchList(v.FailIfMatchesRegexp, 1, rrs[k], TRUE) THEN FALSE
    ELSE IF ~rrMatchList(v.FailIfNotMatchesRegexp, 1, rrs[k], FALSE) THEN FALSE
    ELSE rrsFrom(rrs, k + 1, v)

\* The check of the empty record set is left out.
validRRsAnyLength(rrs, v) == rrsFrom(rrs, 1, v)

validRRs(rrs, v) ==
    IF Len(rrs) = 0 /\ Len(v.FailIfNotMatchesRegexp) > 0 THEN FALSE
    ELSE rrsFrom(rrs, 1, v)

validRcode(rcode, valid) ==
    IF valid.isNil THEN rcode = RcodeOf("NOERROR")
    ELSE IF \E i \in 1..Len(valid.names) : valid.names[i] \notin KnownRcodes THEN FALSE
    ELSE \E i \in 1..Len(valid.names) : rcode = RcodeOf(valid.names[i])

NoDNSResponse == [nil |-> TRUE, Rcode |-> 0, Answer |-> <<>>, Ns |-> <<>>, Extra |-> <<>>]
NoGauges == [set |-> FALSE, answer |-> 0, authority |-> 0, additional |-> 0]
NoMsg == [Name |-> <<>>, Qtype |-> "", Qclass |-> ""]

\* dns.Fqdn: the name with a dot at its end.
Fqdn(name) ==
    IF name # <<>> /\ name[Len(name)] = "." THEN name ELSE Append(name, ".")

\* msg.SetQuestion(name, qt): one question of that name and type, in the
\* class INET.
SetQuestion(name, qt) == [Name |-> name, Qtype |-> qt, Qclass |-> "IN"]

DNSIdle ==
    [pc |-> "idle", config |-> DefaultDNSProbe, TransportProtocol |-> "",
     lookups |-> <<>>, dialProtocol |-> "", msg |-> NoMsg, exchanges |-> 0,
     response |-> NoDNSResponse,
     numAnswer |-> 0, numAuthority |-> 0, numAdditional |-> 0,
     gauges |-> NoGauges, resolveError |-> FALSE, success |-> FALSE]

\* The three gauges are set on the successful return only.
DNSReturnWithGaugesOnSuccess(d, success) ==
    [d EXCEPT !.pc = "done", !.success = success,
              !.gauges = IF success
                         THEN [set |-> TRUE, answer |-> d.numAnswer,
                               authority |-> d.numAuthority, additional |-> d.numAdditional]
                         ELSE @]

\* return, with the deferred function setting the three gauges
DNSReturnWith(d, success) ==
    [d EXCEPT !.pc = "done", !.success = success,
              !.gauges = [set |-> TRUE, answer |-> d.numAnswer,
                          authority |-> d.numAuthority, additional |-> d.numAdditional]]

\* Entry up to the resolution of the target.
DNSStartOf(probes) ==
    /\ dns.pc = "idle"
    /\ http.pc = "idle" /\ icmp.pc = "idle"
    /\ \E m \in probes :
         LET transport == IF m.TransportProtocol = "" THEN "udp" ELSE m.TransportProtocol
             d == [DNSIdle EXCEPT !.config = m, !.TransportProtocol = transport]
         IN dns' = IF transport = "udp" \/ transport = "tcp"
                   THEN [d EXCEPT !.pc = "resolve"]
                   ELSE DNSReturnWith(d, FALSE)
    /\ UNCHANGED <<cfgVars, raceVars, storeVars, seqVars, http, icmp>>

DNSStart == DNSStartOf(DNSProbes)

DNSStartAddress == DNSStartOf(DNSAddressProbes)

\* chooseProtocol: the family asked first and the one asked after it failed.
dnsPreferred(PreferredIPProtocol) ==
    IF PreferredIPProtocol = "ip4" THEN "ip4" ELSE "ip6"

dnsFallback(PreferredIPProtocol) ==
    IF PreferredIPProtocol = "ip4" THEN "ip6" ELSE "ip4"

\* After chooseProtocol answered in `network`: the dial protocol, the query
\* type and the query message.
DNSResolved(d, network) ==
    LET dialProtocol == IF Family(network) = 6 THEN d.TransportProtocol \o "6"
                        ELSE d.TransportProtocol \o "4"
        e == [d EXCEPT !.dialProtocol = dialProtocol]
    IN IF d.config.QueryType # "" /\ d.config.QueryType \notin KnownTypes
       THEN DNSReturnWith(e, FALSE)
       ELSE [e EXCEPT !.pc = "exchange",
                      !.msg = SetQuestion(Fqdn(d.config.QueryName),
                                          IF d.config.QueryType = "" THEN "ANY" ELSE d.config.QueryType)]

\* chooseProtocol: the resolution in the preferred family
DNSResolve ==
    /\ dns.pc = "resolve"
    /\ \E ok \in BOOLEAN :
         LET network == dnsPreferred(dns.config.PreferredIPProtocol)
             d == [dns EXCEPT !.lookups = Append(@, [network |-> network, ok |-> ok])]
         IN dns' = IF ok THEN DNSResolved(d, network) ELSE [d EXCEPT !.pc = "fallback"]
    /\ UNCHANGED <<cfgVars, raceVars, storeVars, seqVars, http, icmp>>

\* chooseProtocol: the resolution in the other family
DNSResolveFallback ==
    /\ dns.pc = "fallback"
    /\ \E ok \in BOOLEAN :
         LET network == dnsFallback(dns.config.PreferredIPProtocol)
             d == [dns EXCEPT !.lookups = Append(@, [network |-> network, ok |-> ok])]
         IN dns' = IF ok THEN DNSResolved(d, network)
                   ELSE DNSReturnWith([d EXCEPT !.resolveError = TRUE], FALSE)
    /\ UNCHANGED <<cfgVars, raceVars, storeVars, seqVars, http, icmp>>

\* An exchange that failed is tried once more.
DNSExchangeErrorRetried ==
    /\ dns.pc = "exchange"
    /\ dns' = IF dns.exchanges = 0 THEN [dns EXCEPT !.exchanges = @ + 1]
              ELSE DNSReturnWith([dns EXCEPT !.exchanges = @ + 1], FALSE)
    /\ UNCHANGED <<cfgVars, raceVars, storeVars, seqVars, http, icmp>>

\* client.Exchange(msg, target) fails
DNSExchangeError ==
    /\ dns.pc = "exchange"
    /\ dns' = DNSReturnWith([dns EXCEPT !.exchanges = @ + 1], FALSE)
    /\ UNCHANGED <<cfgVars, raceVars, storeVars, seqVars, http, icmp>>

\* client.Exchange(msg, target) answers: the counts, then the validation of
\* the rcode and of the three sections.
DNSExchange ==
    /\ dns.pc = "exchange"
    /\ \E rcode \in Rcodes, answer \in AnswerSections, ns \in OtherSections, extra \in OtherSections :
         LET d == [dns EXCEPT !.exchanges = @ + 1,
                       !.response = [nil |-> FALSE, Rcode |-> rcode, Answer |-> answer,
                                     Ns |-> ns, Extra |-> extra],
                       !.numAnswer = Len(answer), !.numAuthority = Len(ns),
                       !.numAdditional = Len(extra)]
         IN dns' = IF ~validRcode(rcode, d.config.ValidRcodes) THEN DNSReturnWith(d, FALSE)
                   ELSE IF ~validRRs(answer, d.config.ValidateAnswer) THEN DNSReturnWith(d, FALSE)
                   ELSE IF ~validRRs(ns, d.config.ValidateAuthority) THEN DNSReturnWith(d, FALSE)
                   ELSE IF ~validRRs(extra, d.config.ValidateAdditional) THEN DNSReturnWith(d, FALSE)
                   ELSE DNSReturnWith(d, TRUE)
    /\ UNCHANGED <<cfgVars, raceVars, storeVars, seqVars, http, icmp>>

\* The caller has the result; the next probe may start.
DNSReturn ==
    /\ dns.pc = "done"
    /\ dns' = DNSIdle
    /\ UNCHANGED <<cfgVars, raceVars, storeVars, seqVars, http, icmp>>

(***************************************************************************)
(* The configuration validator: isCompressionAcceptEncodingValid.  A       *)
(* header is the sequence of its symbols: tokens, weights, "q=", ",", ";"  *)
(* and blanks.                                                             *)
(***************************************************************************)
MaxEntries == 2

RECURSIVE splitOn(_, _, _)
\* strings.Split(text, sep): the parts between the separators; `part` is the
\* part under way.
splitOn(text, sep, part) ==
    IF text = <<>> THEN <<part>>
    ELSE IF Head(text) = sep THEN <<part>> \o splitOn(Tail(text), sep, <<>>)
    ELSE splitOn(Tail(text), sep, Append(part, Head(text)))

RECURSIVE trimLeft(_)
trimLeft(text) ==
    IF text # <<>> /\ Head(text) = " " THEN trimLeft(Tail(text)) ELSE text

RECURSIVE trimRight(_)
trimRight(text) ==
    IF text # <<>> /\ text[Len(text)] = " "
    THEN trimRight(SubSeq(text, 1, Len(text) - 1)) ELSE text

\* strings.TrimSpace
TrimSpace(text) == trimRight(trimLeft(text))

\* The index of the last `sym` in the text, 0 when there is none.
lastIndex(text, sym) ==
    IF \E i \in 1..Len(text) : text[i] = sym
    THEN CHOOSE i \in 1..Len(text) :
            text[i] = sym /\ \A j \in (i + 1)..Len(text) : text[j] # sym
    ELSE 0

\* A weight in thousandths; what is no number weighs 0.
parseQuality(text) ==
    IF text = <<"1.0">> THEN 1000
    ELSE IF text = <<"0.5">> THEN 500
    ELSE IF text = <<"0.1">> THEN 100
    ELSE 0

\* One entry of the list: its token, and its weight, 1 when it names none.
parseEntry(part) ==
    LET idx == lastIndex(part, ";") IN
    IF idx = 0 THEN [encoding |-> TrimSpace(part), quality |-> 1000]
    ELSE LET q == TrimSpace(SubSeq(part, idx + 1, Len(part)))
             v == IF q # <<>> /\ Head(q) = "q=" THEN Tail(q) ELSE q
         IN [encoding |-> TrimSpace(SubSeq(part, 1, idx - 1)), quality |-> parseQuality(v)]

parseEntries(acceptEncoding) ==
    LET parts == splitOn(acceptEncoding, ",", <<>>) IN
    [i \in 1..Len(parts) |-> parseEntry(parts[i])]

\* The first entry that names the token or "*" decides.
isCompressionAcceptEncodingValidFirstMatch(compression, acceptEncoding) ==
    IF compression = "" \/ acceptEncoding = <<>> THEN TRUE
    ELSE LET entries == parseEntries(acceptEncoding)
             hits == {i \in 1..Len(entries) : entries[i].encoding \in {<<compression>>, <<"*">>}}
         IN IF hits = {} THEN FALSE
            ELSE entries[CHOOSE i \in hits : \A j \in hits : i <= j].quality > 0

\* Whether the compression is acceptable under the Accept-Encoding header:
\* any compression without a header and any header without compression;
\* otherwise the entry for the token decides, and without one the "*" entry.
isCompressionAcceptEncodingValid(compression, acceptEncoding) ==
    IF compression = "" \/ acceptEncoding = <<>> THEN TRUE
    ELSE LET entries == parseEntries(acceptEncoding)
             explicit == {i \in 1..Len(entries) : entries[i].encoding = <<compression>>}
             wildcard == {i \in 1..Len(entries) : entries[i].encoding = <<"*">>}
         IN IF explicit # {}
            THEN entries[CHOOSE i \in explicit : \A j \in explicit : i >= j].quality > 0
            ELSE IF wildcard # {}
            THEN entries[CHOOSE i \in wildcard : \A j \in wildcard : i >= j].quality > 0
            ELSE FALSE

\* The cases of TestIsEncodingAcceptable.
TestCases ==
    << [input |-> "", acceptEncoding |-> <<"gzip">>, expected |-> TRUE],
       [input |-> "gzip", acceptEncoding |-> <<"gzip">>, expected |-> TRUE],
       [input |-> "gzip", acceptEncoding |-> <<"gzip", ";", "q=", "1.0">>, expected |-> TRUE],
       [input |-> "gzip", acceptEncoding |-> <<"gzip", ",", " ", "compress">>, expected |-> TRUE],
       [input |-> "gzip", acceptEncoding |-> <<"compress", ",", " ", "gzip">>, expected |-> TRUE],
       [input |-> "br", acceptEncoding |-> <<"gzip", ",", " ", "compress">>, expected |-> FALSE],
       [input |-> "br", acceptEncoding |-> <<"gzip", ",", " ", "compress", ",", " ", "*">>,
        expected |-> TRUE],
       [input |-> "br",
        acceptEncoding |-> <<"gzip", ",", " ", "compress", ",", " ", "*", ";", "q=", "0.1">>,
        expected |-> TRUE],
       [input |-> "br",
        acceptEncoding |-> <<"gzip", ",", " ", "compress", ",", " ", "br", ";", "q=", "0.0">>,
        expected |-> FALSE],
       [input |-> "br",
        acceptEncoding |-> <<"gzip", ",", " ", "compress", ",", " ", "*", ";", "q=", "0.0">>,
        expected |-> FALSE],
       [input |-> "br",
        acceptEncoding |-> <<"gzip", ";", "q=", "1.0", ",", " ", "compress", ";", "q=", "0.5", ",", " ",
                             "br", ";", "q=", "0.1", ",", " ", "*", ";", "q=", "0.0">>,
        expected |-> TRUE],
       [input |-> "br",
        acceptEncoding |-> <<"*", ";", "q=", "0.0", ",", " ", "compress", ";", "q=", "0.5", ",", " ",
                             "br", ";", "q=", "0.1", ",", " ", "gzip", ";", "q=", "1.0">>,
        expected |-> TRUE],
       [input |-> "br",
        acceptEncoding |-> <<" ", "gzip", ";", "q=", "1.0", ",", " ", "compress", ";", " ", "q=", "0.5",
                             ",", " ", "br", ";", "q=", "0.1", ",", " ", "*", ";", " ", "q=", "0.0", " ">>,
        expected |-> TRUE] >>

\* The headers the validator is called with besides: lists of entries for
\* different tokens, each with or without a weight, with or without blanks
\* around its token and its weight.
Compressions == {"", "br", "gzip"}
EntryTokens == {"gzip", "br", "*"}
EntryWeights == {"", "0.0", "0.1", "1.0"}
Entries == [token : EntryTokens, weight : EntryWeights, blanks : BOOLEAN]
EntryLists ==
    {l \in UNION {[1..k -> Entries] : k \in 0..MaxEntries} :
        \A i, j \in DOMAIN l : i # j => l[i].token # l[j].token}

\* The text of one entry.
renderEntry(e) ==
    LET blank == IF e.blanks THEN <<" ">> ELSE <<>> IN
    blank \o <<e.token>>
    \o (IF e.weight = "" THEN <<>> ELSE <<";">> \o blank \o <<"q=", e.weight>>)
    \o blank

RECURSIVE render(_)
\* The text of a list of entries.
render(l) ==
    IF l = <<>> THEN <<>>
    ELSE IF Len(l) = 1 THEN renderEntry(l[1])
    ELSE renderEntry(l[1]) \o <<",">> \o render(Tail(l))

NoEncoding ==
    [called |-> FALSE, test |-> 0, compression |-> "", entries |-> <<>>,
     acceptEncoding |-> <<>>, result |-> FALSE]

\* The check of one of the test's cases.
CheckTestCase ==
    /\ ~encoding.called
    /\ \E k \in DOMAIN TestCases :
         encoding' = [called |-> TRUE, test |-> k, compression |-> TestCases[k].input,
                      entries |-> <<>>, acceptEncoding |-> TestCases[k].acceptEncoding,
                      result |-> isCompressionAcceptEncodingValid(TestCases[k].input,
                                                                   TestCases[k].acceptEncoding)]
    /\ UNCHANGED <<raceVars, storeVars, seqVars, http, icmp, dns, validated, marshalled, request>>

\* The check of a module's compression against its Accept-Encoding header.
CheckEncoding ==
    /\ ~encoding.called
    /\ \E compression \in Compressions, l \in EntryLists :
         encoding' = [called |-> TRUE, test |-> 0, compression |-> compression,
                      entries |-> l, acceptEncoding |-> render(l),
                      result |-> isCompressionAcceptEncodingValid(compression, render(l))]
    /\ UNCHANGED <<raceVars, storeVars, seqVars, http, icmp, dns, validated, marshalled, request>>

(***************************************************************************)
(* The marshalling of a configuration: yaml.Marshal(sc.C).  A text is the  *)
(* sequence of its lines, a line a key and a value.                        *)
(***************************************************************************)
SecretValues == {"mysecret", "hunter2", "s3cr3t"}
Usernames == {"", "user"}

\* The HTTP client options of a module; "" is an option that is not set.
SecretConfigs ==
    [username : Usernames, password : SecretValues \cup {""},
     bearer_token : SecretValues \cup {""}]

\* A secret marshalled as it is.
marshalSecretPlain(secret) == secret

\* Secret.MarshalYAML: what stands for a secret in the text.
marshalSecret(secret) == "<secret>"

\* yaml.Marshal of the options: the options that are set, the secrets among
\* them through marshalSecret.
Marshal(c) ==
    (IF c.username = "" THEN <<>> ELSE << <<"username", c.username>> >>)
    \o (IF c.password = "" THEN <<>> ELSE << <<"password", marshalSecret(c.password)>> >>)
    \o (IF c.bearer_token = "" THEN <<>> ELSE << <<"bearer_token", marshalSecret(c.bearer_token)>> >>)

NotMarshalled ==
    [done |-> FALSE, a |-> [username |-> "", password |-> "", bearer_token |-> ""],
     b |-> [username |-> "", password |-> "", bearer_token |-> ""], textA |-> <<>>, textB |-> <<>>]

\* Two configurations that differ at most in the values of their secrets.
SameButSecrets(a, b) ==
    /\ a.username = b.username
    /\ (a.password = "") <=> (b.password = "")
    /\ (a.bearer_token = "") <=> (b.bearer_token = "")

\* Two loaded configurations that differ at most in the values of their
\* secrets are marshalled.
MarshalConfigs ==
    /\ ~marshalled.done
    /\ \E a \in SecretConfigs, b \in SecretConfigs :
         /\ SameButSecrets(a, b)
         /\ marshalled' = [done |-> TRUE, a |-> a, b |-> b, textA |-> Marshal(a), textB |-> Marshal(b)]
    /\ UNCHANGED <<raceVars, storeVars, seqVars, http, icmp, dns, validated, encoding, request>>

(***************************************************************************)
(* http.go: the headers of the request.  A header key is the sequence of   *)
(* its characters.                                                         *)
(***************************************************************************)
MaxHeaders == 2

\* unicode.ToUpper and unicode.ToLower on the letters the keys are written in.
Upper(c) ==
    CASE c = "h" -> "H" [] c = "o" -> "O" [] c = "s" -> "S" [] c = "t" -> "T"
      [] c = "x" -> "X" [] c = "a" -> "A" [] OTHER -> c

Lower(c) ==
    CASE c = "H" -> "h" [] c = "O" -> "o" [] c = "S" -> "s" [] c = "T" -> "t"
      [] c = "X" -> "x" [] c = "A" -> "a" [] OTHER -> c

\* strings.Title: the first letter of every word in upper case, the other
\* letters as they are.
Title(key) ==
    [i \in 1..Len(key) |-> IF i = 1 \/ key[i - 1] = "-" THEN Upper(key[i]) ELSE key[i]]

\* The key request.Header.Set files a value under: the first letter and the
\* letters after a hyphen in upper case, the others in lower case.
CanonicalMIMEHeaderKey(key) ==
    [i \in 1..Len(key) |-> IF i = 1 \/ key[i - 1] = "-" THEN Upper(key[i]) ELSE Lower(key[i])]

\* The keys a module configures: "host" in every spelling, and two keys that
\* are no spelling of it.
HeaderKeys ==
    {[i \in 1..4 |-> IF up[i] THEN Upper(<<"h", "o", "s", "t">>[i]) ELSE <<"h", "o", "s", "t">>[i]] :
        up \in [1..4 -> BOOLEAN]}
    \cup {<<"x", "-", "a">>, <<"h", "o", "s", "t", "-", "a">>}

HeaderValues == {"a.example", "b.example"}

\* The request of http.NewRequest: the authority is that of the target ("")
\* and no header is set.
NoRequest == [done |-> FALSE, headers |-> <<>>, Host |-> "", Header |-> [k \in {} |-> ""]]

RECURSIVE setHeaders(_, _)
\* for key, value := range config.Headers, the headers in the order the
\* range takes them.
setHeaders(headers, req) ==
    IF headers = <<>> THEN req
    ELSE LET key == Head(headers).key
             value == Head(headers).value
         IN setHeaders(Tail(headers),
               IF Title(key) = <<"H", "o", "s", "t">>
               THEN [req EXCEPT !.Host = value]
               ELSE [req EXCEPT !.Header =
                        [k \in DOMAIN @ \cup {CanonicalMIMEHeaderKey(key)} |->
                            IF k = CanonicalMIMEHeaderKey(key) THEN value ELSE @[k]]])

\* The headers of a module are put on the request; the range over the map
\* takes them in any order.
HTTPSetHeaders ==
    /\ ~request.done
    /\ \E n \in 0..MaxHeaders :
         \E keys \in [1..n -> HeaderKeys], values \in [1..n -> HeaderValues] :
            /\ \A i, j \in 1..n : i # j => keys[i] # keys[j]
            /\ LET headers == [i \in 1..n |-> [key |-> keys[i], value |-> values[i]]] IN
               request' = [setHeaders(headers, NoRequest) EXCEPT !.done = TRUE, !.headers = headers]
    /\ UNCHANGED <<raceVars, storeVars, seqVars, http, icmp, dns, validated, encoding, marshalled>>

(***************************************************************************)
(* icmp.go: probeICMP invocations that run concurrently, from the call of  *)
(* getICMPSequence to the end of the read loop.  All probe the same        *)
(* target, and every socket receives every echo reply.                     *)
(***************************************************************************)
NProbes == 2

\* The values the counter stands at when the calls followed are made.
StartValues == {0, 1, 32767, 65533, 65534, 65535}

Probes == 1..NProbes

ProbeIdle == [pc |-> "idle", tmp |-> 0, seq |-> -1, sent |-> FALSE, success |-> FALSE, from |-> -1]

\* A mutex that excludes nobody.
mutexFreeAlways == TRUE

\* icmpSequenceMutex is not held.
mutexFree == icmpSequenceMutex = 0

\* icmpSequenceMutex.Lock()
CallLock(p) ==
    /\ icmpProbes[p].pc = "idle"
    /\ mutexFree
    /\ icmpSequenceMutex' = p
    /\ icmpProbes' = [icmpProbes EXCEPT ![p].pc = "load"]
    /\ UNCHANGED <<cfgVars, storeVars, seqVars, http, icmp, dns, others>>

\* icmpSequence++: the counter is read ...
CallLoad(p) ==
    /\ icmpProbes[p].pc = "load"
    /\ icmpProbes' = [icmpProbes EXCEPT ![p].pc = "store", ![p].tmp = icmpSequence]
    /\ UNCHANGED <<cfgVars, storeVars, seqVars, http, icmp, dns, icmpSequenceMutex, others>>

\* ... and written back, one more on a uint16.
CallStore(p) ==
    /\ icmpProbes[p].pc = "store"
    /\ icmpSequence' = (icmpProbes[p].tmp + 1) % SeqMod
    /\ icmpProbes' = [icmpProbes EXCEPT ![p].pc = "return"]
    /\ UNCHANGED <<cfgVars, storeVars, seqLog, http, icmp, dns, icmpSequenceMutex, others>>

\* return icmpSequence
CallReturn(p) ==
    /\ icmpProbes[p].pc = "return"
    /\ icmpProbes' = [icmpProbes EXCEPT ![p].pc = "unlock", ![p].seq = icmpSequence]
    /\ UNCHANGED <<cfgVars, storeVars, seqVars, http, icmp, dns, icmpSequenceMutex, others>>

\* defer icmpSequenceMutex.Unlock(); the caller has its sequence number.
CallUnlock(p) ==
    /\ icmpProbes[p].pc = "unlock"
    /\ icmpSequenceMutex' = 0
    /\ icmpProbes' = [icmpProbes EXCEPT ![p].pc = "write"]
    /\ UNCHANGED <<cfgVars, storeVars, seqVars, http, icmp, dns, others>>

\* socket.WriteTo(wb, ip): the echo request with the probe's sequence number
\* is on its way, or the write failed.
ProbeWrite(p) ==
    /\ icmpProbes[p].pc = "write"
    /\ \E ok \in BOOLEAN :
         icmpProbes' = [icmpProbes EXCEPT ![p].pc = IF ok THEN "read" ELSE "done", ![p].sent = ok]
    /\ UNCHANGED <<cfgVars, storeVars, seqVars, http, icmp, dns, icmpSequenceMutex, others>>

\* The reply is compared without its sequence number.
replyMatchesAnySeq(seq, expected) == TRUE

\* bytes.Compare(rb[:n], wb) == 0 for an echo reply of the peer: type, code,
\* id (the process id) and data are those of every probe of the process,
\* so the reply is the expected one when its sequence number is.
replyMatches(seq, expected) == seq = expected

\* One turn of the read loop: a timeout, or the reply to the request of
\* some probe of the process (`from` the probe, 0 for one of the others).
ProbeRead(p) ==
    /\ icmpProbes[p].pc = "read"
    /\ \/ icmpProbes' = [icmpProbes EXCEPT ![p].pc = "done"]
       \/ \E q \in Probes \cup {0} :
            LET seq == IF q = 0 THEN others.seq ELSE icmpProbes[q].seq IN
            /\ IF q = 0 THEN others.seq # -1 ELSE icmpProbes[q].sent
            /\ icmpProbes' = IF replyMatches(seq, icmpProbes[p].seq)
                         THEN [icmpProbes EXCEPT ![p].pc = "done", ![p].success = TRUE, ![p].from = q]
                         ELSE icmpProbes
    /\ UNCHANGED <<cfgVars, storeVars, seqVars, http, icmp, dns, icmpSequenceMutex, others>>

\* The caller has the result.
ProbeReturn(p) ==
    /\ icmpProbes[p].pc = "done"
    /\ icmpProbes' = [icmpProbes EXCEPT ![p] = [ProbeIdle EXCEPT !.pc = "returned", !.seq = icmpProbes[p].seq]]
    /\ UNCHANGED <<cfgVars, storeVars, seqVars, http, icmp, dns, icmpSequenceMutex, others>>

\* Another probe of the process draws its sequence number and sends its
\* request.  The other probes come and go while one of the probes followed
\* here still waits for its reply and the rest have returned; `drawn`
\* counts them, up to one round of the counter.
OtherProbe ==
    /\ mutexFree
    /\ \E p \in Probes :
         /\ icmpProbes[p].pc = "read"
         /\ \A q \in Probes \ {p} : icmpProbes[q].pc = "returned"
    /\ others.drawn < SeqMod
    /\ icmpSequence' = getICMPSequence(icmpSequence)
    /\ others' = [others EXCEPT !.seq = icmpSequence', !.drawn = @ + 1]
    /\ UNCHANGED <<cfgVars, storeVars, seqLog, http, icmp, dns, icmpSequenceMutex, icmpProbes>>

(***************************************************************************)
(* The specifications.                                                     *)
(***************************************************************************)
\* The state of a process whose sequence counter stands at c.
InitAt(c) ==
    /\ sc = [C |-> EmptyConfig, derived |-> Derived(EmptyConfig)]
    /\ rwmutex = [writer |-> 0, readers |-> {}]
    /\ reload = [r \in Reloaders |-> ReloadIdle]
    /\ reader = [p \in Readers |-> ReaderIdle]
    /\ installed = {}
    /\ rejected = [doc |-> [n \in {} |-> 0]]
    /\ icmpSequence = c
    /\ seqLog = SeqLogInit
    /\ http = HTTPIdle
    /\ icmp = ICMPIdle
    /\ dns = DNSIdle
    /\ validated = NotValidated
    /\ encoding = NoEncoding
    /\ marshalled = NotMarshalled
    /\ request = NoRequest
    /\ icmpSequenceMutex = 0
    /\ icmpProbes = [p \in Probes |-> ProbeIdle]
    /\ others = [start |-> c, seq |-> -1, drawn |-> 0]

\* The process after its start: var icmpSequence uint16 is 0.
Init == InitAt(0)

\* The process after the calls that brought the counter to the middle of
\* its range or next to its end.
InitCalls == \E c \in StartValues : InitAt(c)

NextStore ==
    \/ \E r \in Reloaders : ReloadParse(r)
    \/ \E r \in Reloaders : ReloadLock(r)
    \/ \E r \in Reloaders : ReloadReplace(r)
    \/ \E r \in Reloaders : ReloadDerive(r)
    \/ \E r \in Reloaders : ReloadUnlock(r)
    \/ \E p \in Readers : ReaderRLock(p)
    \/ \E p \in Readers : ReaderReadC(p)
    \/ \E p \in Readers : ReaderReadDerived(p)
    \/ \E p \in Readers : ReaderRUnlock(p)

NextSeq == SeqCall

NextHTTP ==
    \/ HTTPStart
    \/ HTTPParse
    \/ HTTPResolve
    \/ HTTPResolveFallback
    \/ HTTPTLSConfig
    \/ HTTPNewRequest
    \/ HTTPDoError
    \/ HTTPDoResponse
    \/ HTTPBody
    \/ HTTPFinish
    \/ HTTPReturn

NextICMP ==
    \/ ICMPStart
    \/ ICMPResolve
    \/ ICMPResolveFallback
    \/ ICMPListen
    \/ ICMPRequest
    \/ ICMPWrite
    \/ ICMPExpect
    \/ ICMPRead
    \/ ICMPReturn

NextDNS ==
    \/ DNSStart
    \/ DNSResolve
    \/ DNSResolveFallback
    \/ DNSExchangeError
    \/ DNSExchange
    \/ DNSReturn

\* The probers with the modules' address options varying.
Next ==
    \/ HTTPStartAddress
    \/ HTTPParse
    \/ HTTPResolve
    \/ HTTPResolveFallback
    \/ HTTPTLSConfig
    \/ HTTPNewRequest
    \/ HTTPDoError
    \/ HTTPDoResponse
    \/ HTTPBody
    \/ HTTPFinish
    \/ HTTPReturn
    \/ NextICMP
    \/ DNSStartAddress
    \/ DNSResolve
    \/ DNSResolveFallback
    \/ DNSExchangeError
    \/ DNSExchange
    \/ DNSReturn

\* One probe at a time, of any of the three probers.
Spec == Init /\ [][Next]_vars

\* The configuration store under concurrent reloads and readers.
SpecStore == Init /\ [][NextStore]_vars

\* A caller drawing sequence numbers one after the other.
SpecSeq == Init /\ [][NextSeq]_vars

\* HTTP probes, one after the other.
SpecHTTP == Init /\ [][NextHTTP]_vars

\* The validator run on a module.
SpecValidate == Init /\ [][ValidateModule]_vars

NextEncoding ==
    \/ CheckTestCase
    \/ CheckEncoding

\* A call of isCompressionAcceptEncodingValid.
SpecEncoding == Init /\ [][NextEncoding]_vars

\* Two configurations marshalled.
SpecMarshal == Init /\ [][MarshalConfigs]_vars

\* The headers of one module put on a request.
SpecHeaders == Init /\ [][HTTPSetHeaders]_vars

\* ICMP probes, one after the other.
SpecICMP == Init /\ [][NextICMP]_vars

\* ICMP probes whose steps are taken: a probe that can take a step takes one.
SpecICMPLive == SpecICMP /\ WF_vars(NextICMP)

\* DNS probes, one after the other.
SpecDNS == Init /\ [][NextDNS]_vars

NextCalls ==
    \/ \E p \in Probes : CallLock(p)
    \/ \E p \in Probes : CallLoad(p)
    \/ \E p \in Probes : CallStore(p)
    \/ \E p \in Probes : CallReturn(p)
    \/ \E p \in Probes : CallUnlock(p)

\* Concurrent calls of getICMPSequence.  A call that can take a step takes
\* one: a goroutine that is not blocked runs, and Lock returns once the
\* mutex is free.
SpecCalls == InitCalls /\ [][NextCalls]_vars /\ WF_vars(NextCalls)

NextProbes ==
    \/ NextCalls
    \/ \E p \in Probes : ProbeWrite(p)
    \/ \E p \in Probes : ProbeRead(p)
    \/ \E p \in Probes : ProbeReturn(p)
    \/ OtherProbe

\* Concurrent ICMP probes of one target.
SpecProbes == Init /\ [][NextProbes]_vars

(***************************************************************************)
(* The configuration store: claims C1 and C2.                              *)
(***************************************************************************)
\* The readers that hold everything they observe under one RLock.
Observers == {p \in Readers : reader[p].pc = "runlock"}

\* C1: under any interleaving of ReloadConfig calls with readers, what a
\* reader has observed under its read lock is, as a whole, the initial empty
\* configuration or the configuration one successful reload installed: the
\* configuration it read is one that was installed (or the empty one), and
\* the derived structures it read are those of that configuration, never
\* those of another generation.
C1_ReadersSeeOneGeneration ==
    \A p \in Observers :
        /\ reader[p].C = EmptyConfig \/ reader[p].C \in installed
        /\ reader[p].derived.gen = reader[p].C.gen
        /\ reader[p].derived.names = DOMAIN reader[p].C.modules

\* A reader has observed the configuration of the first reload while a
\* second reload is in progress.
C1_Witness ==
    \E p \in Observers :
        /\ reader[p].C.gen = 1
        /\ reader[p].derived.gen = 1
        /\ \E r \in Reloaders : reload[r].pc = "lock" /\ reload[r].c.modules # reader[p].C.modules

\* Every module of the document is valid: a known prober, a TTL in 0..255.
AllModulesValid(doc) ==
    \A n \in DOMAIN doc : doc[n].Prober = "icmp" /\ doc[n].TTL >= 0 /\ doc[n].TTL <= 255

\* C2: a ReloadConfig call with a document in which a module fails
\* validation returns an error and leaves the active configuration as it
\* was.  Only documents whose modules are all valid get as far as being
\* installed, and the step in which a call returns straight from validation
\* returns an error and changes neither the configuration nor what is
\* derived from it.
C2_RejectedReloadChangesNothing ==
    /\ [](\A r \in Reloaders : reload[r].pc # "idle" => AllModulesValid(reload[r].c.modules))
    /\ [](\A c \in installed : AllModulesValid(c.modules))
    /\ [](sc.C = EmptyConfig \/ sc.C \in installed)
    /\ [][\A r \in Reloaders :
            (reload[r].pc = "idle" /\ reload'[r].pc = "idle" /\ reload'[r] # reload[r])
            => /\ reload'[r].err # Nil /\ reload'[r].ret
               /\ ~AllModulesValid(rejected'.doc)
               /\ sc' = sc /\ installed' = installed]_vars

\* A reload of a document with one valid and one invalid module has failed
\* while a configuration was loaded, and that configuration is still active.
C2_Witness ==
    /\ \E r \in Reloaders : reload[r].pc = "idle" /\ reload[r].ret /\ reload[r].err # Nil
    /\ DOMAIN rejected.doc = ModuleNames
    /\ \E n \in ModuleNames : ModuleError(rejected.doc[n]) = Nil
    /\ \E n \in ModuleNames : ModuleError(rejected.doc[n]) # Nil
    /\ sc.C.gen = 1 /\ sc.derived.gen = 1
    /\ rwmutex.writer = 0

(***************************************************************************)
(* The sequence counter: claim C3.                                         *)
(***************************************************************************)
\* C3 as stated: no two getICMPSequence calls ever return the same value.
C3_NeverTheSameValue == ~seqLog.dup

\* C3, amended: the counter is never reset but wraps modulo 2^16.  Two calls
\* fewer than 65536 calls apart return different values; a value comes back
\* only with the 65536th call after the one that returned it.
C3_UniqueWithinPeriod ==
    /\ (seqLog.held # -1 /\ seqLog.since >= 1 /\ seqLog.since < 65536)
           => seqLog.last # seqLog.held /\ ~seqLog.dup
    /\ seqLog.dup <=> seqLog.since = 65536

\* 65535 calls have followed the held one, each with a value of its own.
C3_Witness ==
    /\ seqLog.held # -1
    /\ seqLog.since = 65535
    /\ ~seqLog.dup

(***************************************************************************)
(* probeHTTP: claims C4 to C9.                                             *)
(***************************************************************************)
\* client.Do was called, and has returned a response.
Requested == http.via >= 1
GotResponse == Requested /\ http.pc \in {"body", "finish", "done"} /\ ~http.resp.nil

HasRegexps ==
    Len(http.config.FailIfMatchesRegexp) > 0 \/ Len(http.config.FailIfNotMatchesRegexp) > 0

\* The status code of the response is an accepted one.
StatusAccepted ==
    IF http.config.ValidStatusCodes # <<>>
    THEN http.resp.StatusCode \in Range(http.config.ValidStatusCodes)
    ELSE http.resp.StatusCode \in 200..299

\* C4: with a response received and neither a body regexp nor a TLS
\* constraint configured, probeHTTP succeeds if and only if the status code
\* is listed in ValidStatusCodes when that list is not empty, and is in
\* 200..299 when it is empty.
C4_StatusDecides ==
    (/\ http.pc = "done" /\ GotResponse
     /\ ~HasRegexps /\ ~http.config.FailIfSSL /\ ~http.config.FailIfNotSSL)
    => (http.success <=> StatusAccepted)

\* A 2xx response is refused because a non-empty list does not name its
\* status.
C4_Witness ==
    /\ http.pc = "done" /\ GotResponse
    /\ ~HasRegexps /\ ~http.config.FailIfSSL /\ ~http.config.FailIfNotSSL
    /\ http.config.ValidStatusCodes = <<299>>
    /\ http.resp.StatusCode = 200
    /\ ~http.success

\* C5 as stated: a request that fails in the transport with no response
\* makes probeHTTP return failure with the diagnostic "request error",
\* whatever the TLS policy flags are.
C5_RequestError ==
    (http.pc = "done" /\ Requested /\ http.err /\ http.resp.nil)
    => (~http.success /\ http.probe_error = "request error")

AllOutputs ==
    {"probe_ip_protocol", "probe_http_status_code", "probe_http_content_length",
     "probe_http_redirects", "probe_http_ssl"}

\* The names of the outputs written so far.
Written == {line[1] : line \in http.w}

\* C6 as stated: every return of probeHTTP has written all five outputs.
C6_AllOutputsAlways == http.pc = "done" => AllOutputs \subseteq Written

\* C6, amended: every invocation that gets as far as sending the request
\* has written all five outputs when it returns, whatever its outcome.  The
\* returns before that have written nothing (target parse failure,
\* resolution failure) or the IP protocol version alone (TLS config
\* generation failure, request construction failure).
C6_OutputsOnceRequested ==
    http.pc = "done" =>
        IF Requested THEN AllOutputs \subseteq Written
        ELSE IF http.probe_error \in {"Could not parse target URL", "Error resolving address"}
        THEN Written = {}
        ELSE /\ http.probe_error \in {"Error generating TLS config", "Error creating request for target"}
             /\ Written = {"probe_ip_protocol"}

\* A probe whose request failed in the transport returns failure with all
\* five outputs written.
C6_Witness ==
    /\ http.pc = "done" /\ Requested
    /\ http.resp.nil /\ ~http.success
    /\ AllOutputs \subseteq Written

\* C7: probeHTTP never returns success when the response used TLS and
\* FailIfSSL is set, nor when it did not use TLS and FailIfNotSSL is set;
\* and with neither flag set the last step of the probe, which looks at the
\* TLS state, returns the outcome the status and body checks left.
C7_TLSPolicy ==
    /\ []((http.pc = "done" /\ http.success) =>
            /\ ~(http.resp.TLS /\ http.config.FailIfSSL)
            /\ ~(~http.resp.TLS /\ http.config.FailIfNotSSL))
    /\ [][(/\ http.pc = "finish" /\ http'.pc = "done"
           /\ ~http.config.FailIfSSL /\ ~http.config.FailIfNotSSL)
          => (http'.success = http.success /\ http'.probe_error = http.probe_error)]_vars

\* A response with an accepted status that used TLS fails under FailIfSSL.
C7_Witness ==
    /\ http.pc = "done" /\ GotResponse
    /\ http.resp.TLS /\ http.config.FailIfSSL
    /\ StatusAccepted /\ ~HasRegexps
    /\ ~http.success /\ http.probe_error = "SSL failed"

\* The expressions in the order they are evaluated, each with whether a
\* match fails it.
Expressions ==
    [i \in 1..Len(http.config.FailIfMatchesRegexp) |->
        [re |-> http.config.FailIfMatchesRegexp[i], failOnMatch |-> TRUE]]
    \o [i \in 1..Len(http.config.FailIfNotMatchesRegexp) |->
        [re |-> http.config.FailIfNotMatchesRegexp[i], failOnMatch |-> FALSE]]

\* The k-th expression fails the body that was read.
Fails(k) ==
    \/ ~Compiles(Expressions[k].re)
    \/ Matches(Expressions[k].re, http.body.text) = Expressions[k].failOnMatch

Failing == {k \in 1..Len(Expressions) : Fails(k)}
FirstFailing == CHOOSE k \in Failing : \A j \in Failing : k <= j

\* C8: the body is read and matched exactly when a response passed the
\* status check and a body regexp is configured.  Then the body check fails
\* if some FailIfMatchesRegexp expression matches, some
\* FailIfNotMatchesRegexp expression does not, or some expression does not
\* compile; it stops at the first such expression, compiling none after it
\* and reporting that one; and it passes only when no expression fails.
C8_BodyCheck ==
    /\ (Requested /\ http.pc \in {"finish", "done"}) =>
          (http.body.read <=> (GotResponse /\ StatusAccepted /\ HasRegexps))
    /\ http.pc = "body" => (GotResponse /\ StatusAccepted /\ HasRegexps /\ ~http.body.read)
    /\ (http.pc = "finish" /\ http.body.read) =>
          /\ http.success <=> (http.body.ok /\ Failing = {})
          /\ (http.body.ok /\ Failing = {}) =>
                /\ http.body.compiled = Len(Expressions)
                /\ http.probe_error = ""
          /\ (http.body.ok /\ Failing # {}) =>
                /\ http.body.compiled = FirstFailing
                /\ http.probe_error = IF Compiles(Expressions[FirstFailing].re)
                                      THEN "Match failed" ELSE "Could not compile regexp"
          /\ ~http.body.ok => http.body.compiled = 0

\* The first list's expression fails the body, and the second list's, which
\* would fail it too, was never compiled.
C8_Witness ==
    /\ http.pc = "finish" /\ http.body.read /\ http.body.ok
    /\ Len(http.config.FailIfMatchesRegexp) = 1 /\ Len(http.config.FailIfNotMatchesRegexp) = 1
    /\ Failing = {1, 2}
    /\ http.body.compiled = 1
    /\ ~http.success /\ http.probe_error = "Match failed"

\* client.Do returned a redirect response together with the error of
\* CheckRedirect.
Stopped == GotResponse /\ http.err

\* What the status, body and TLS checks make of the response.
ChecksPass ==
    /\ StatusAccepted
    /\ HasRegexps => (http.body.read /\ http.body.ok /\ Failing = {})
    /\ ~(http.resp.TLS /\ http.config.FailIfSSL)
    /\ ~(~http.resp.TLS /\ http.config.FailIfNotSSL)

\* C9: probeHTTP sends no further request once 11 requests are behind it
\* (the chain exceeds 10) and none after the first when NoFollowRedirects
\* is set.  Redirects are stopped exactly there, and a stopped redirect is no
\* network failure: the redirect response is what the status, body and TLS
\* checks decide on, and its status code and the length of the chain are
\* what is reported.
C9_RedirectsStop ==
    /\ http.via <= 11
    /\ http.config.NoFollowRedirects => http.via <= 1
    /\ Stopped =>
          /\ http.resp.StatusCode \in RedirectCodes
          /\ http.redirects = http.via
          /\ http.redirects = IF http.config.NoFollowRedirects THEN 1 ELSE 11
    /\ (Stopped /\ http.pc = "done") =>
          /\ http.success <=> ChecksPass
          /\ <<"probe_http_status_code", http.resp.StatusCode>> \in http.w
          /\ <<"probe_http_redirects", http.redirects>> \in http.w

\* The eleventh redirect of a chain was stopped, and the probe succeeds on
\* it because its status is listed.
C9_Witness ==
    /\ Stopped /\ http.pc = "done"
    /\ ~http.config.NoFollowRedirects
    /\ http.redirects = 11
    /\ http.success

(***************************************************************************)
(* Resolution with fallback: claim C10.                                    *)
(***************************************************************************)
OtherFamily(network) == IF network = "ip6" THEN "ip4" ELSE "ip6"

\* The family a module prefers; ip6 when it names none.
PreferredFamily(config) == IF config.PreferredIPProtocol = "ip4" THEN "ip4" ELSE "ip6"

BothFailed(lookups) == Len(lookups) = 2 /\ ~lookups[1].ok /\ ~lookups[2].ok

\* The resolutions a probe has made so far: the preferred family first, the
\* other family second and only after the first failed; `resolving` says
\* that the probe may still resolve, `failed` that it returned a resolution
\* error.
ResolvesWithFallback(lookups, preferred, resolving, returned, failed) ==
    /\ Len(lookups) <= 2
    /\ Len(lookups) >= 1 => lookups[1].network = preferred
    /\ Len(lookups) = 2 => ~lookups[1].ok /\ lookups[2].network = OtherFamily(preferred)
    /\ (~resolving /\ Len(lookups) >= 1 /\ ~lookups[1].ok) => Len(lookups) = 2
    /\ returned => (failed <=> BothFailed(lookups))

\* C10: in the probers that allow fallback (HTTP with protocol tcp, DNS,
\* ICMP with protocol icmp) the target is resolved in the preferred family
\* first, and in the other family only after that failed and then always;
\* the probe returns a resolution error if and only if both resolutions
\* failed, and a preferred resolution that succeeded is the only one.
C10_PreferredThenFallback ==
    /\ http.Protocol = "tcp" =>
          ResolvesWithFallback(http.lookups, PreferredFamily(http.config),
              http.pc \in {"parse", "resolve", "fallback"} \/ http.probe_error = "Could not parse target URL",
              http.pc = "done", http.probe_error = "Error resolving address")
    /\ icmp.Protocol = "icmp" =>
          ResolvesWithFallback(icmp.lookups, PreferredFamily(icmp.config),
              icmp.pc \in {"resolve", "fallback"},
              icmp.pc = "done", icmp.probe_error = "Error resolving address")
    /\ dns.pc # "idle" =>
          ResolvesWithFallback(dns.lookups, PreferredFamily(dns.config),
              dns.pc \in {"resolve", "fallback"} \/ dns.TransportProtocol \notin {"udp", "tcp"},
              dns.pc = "done", dns.resolveError)

\* An HTTP probe preferring IPv4 failed to resolve in it, resolved in IPv6
\* and went on to send its request.
C10_Witness ==
    /\ http.pc = "done" /\ http.Protocol = "tcp"
    /\ http.config.PreferredIPProtocol = "ip4"
    /\ Len(http.lookups) = 2
    /\ http.lookups[1] = [network |-> "ip4", ok |-> FALSE]
    /\ http.lookups[2] = [network |-> "ip6", ok |-> TRUE]
    /\ Requested
    /\ <<"probe_ip_protocol", 6>> \in http.w

(***************************************************************************)
(* probeICMP: claims C11 to C13.                                           *)
(***************************************************************************)
\* The probe is in its read loop, or has returned out of it.
InReadLoop == icmp.pc = "read"
ReturnedFromReadLoop == icmp.pc = "done" /\ icmp.read # ""

\* What socket.ReadFrom can return that is neither the expected reply from
\* the peer nor a timeout.
Discarded == {"error", "peer-other", "stranger-reply", "stranger-other"}

\* C11: probeICMP returns success only when the packet it read last came
\* from the resolved peer and equals the expected echo reply.  A packet from
\* another sender and a packet with other bytes (and a read error that is
\* no timeout) leave the probe in its read loop, neither failed nor
\* succeeded; the read loop ends with failure on a read timeout only.
C11_OnlyThePeersReply ==
    /\ []((icmp.pc = "done" /\ icmp.success) => icmp.read = "peer-reply")
    /\ [](ReturnedFromReadLoop =>
            \/ icmp.read = "peer-reply" /\ icmp.success
            \/ /\ icmp.read = "timeout" /\ ~icmp.success
               /\ icmp.probe_error = "Timeout reading from socket")
    /\ [][(InReadLoop /\ icmp'.read \in Discarded /\ icmp' # icmp)
            => (icmp'.pc = "read" /\ icmp'.success = icmp.success
                /\ icmp'.probe_error = icmp.probe_error)]_vars

\* The first packet read was discarded, and the probe then succeeded on
\* the reply of the peer.
C11_Witness ==
    /\ icmp.pc = "done" /\ icmp.success
    /\ icmp.read = "peer-reply"
    /\ icmp.reads = 2

\* C12: every probeICMP invocation eventually returns, whatever the reads
\* of its loop return.
C12_ProbeReturns == (icmp.pc # "idle") ~> (icmp.pc = "done")

\* The reads of the loop returned an error each time until the deadline,
\* and the probe returned the timeout.
C12_Witness ==
    /\ icmp.pc = "done"
    /\ icmp.reads = MaxReads + 1
    /\ icmp.read = "timeout"
    /\ icmp.probe_error = "Timeout reading from socket"

ICMPWritten == {line[1] : line \in icmp.w}

\* C13 as stated: every return of probeICMP has exported the IP protocol
\* version (4 or 6) and the DNS-resolution latency.
C13_BothMetricsAlways ==
    icmp.pc = "done" =>
        /\ "probe_dns_lookup_time_seconds" \in ICMPWritten
        /\ \E v \in {4, 6} : <<"probe_ip_protocol", v>> \in icmp.w

\* C13, amended: every return of probeICMP has exported the DNS-resolution
\* latency; it has exported the IP protocol version, 4 or 6 as the target
\* resolved, exactly when the target resolved, which covers the failure to
\* open the socket, the send failure and the timeout.  After a failure to
\* resolve no version is written, and a registered gauge is left at 0.
C13_MetricsOnceResolved ==
    icmp.pc = "done" =>
        /\ "probe_dns_lookup_time_seconds" \in ICMPWritten /\ icmp.lookupGauge
        /\ IF icmp.probe_error = "Error resolving address"
           THEN "probe_ip_protocol" \notin ICMPWritten /\ icmp.ipGauge = 0
           ELSE /\ icmp.lookups[Len(icmp.lookups)].ok
                /\ \E v \in {4, 6} :
                      /\ (v = 6) <=> (icmp.lookups[Len(icmp.lookups)].network = "ip6")
                      /\ {line \in icmp.w : line[1] = "probe_ip_protocol"} = {<<"probe_ip_protocol", v>>}
                      /\ icmp.ipGauge = v

\* The socket could not be opened for a target resolved in the fallback
\* family IPv4; both metrics are out.
C13_Witness ==
    /\ icmp.pc = "done"
    /\ icmp.probe_error = "Error listening to socket"
    /\ Len(icmp.lookups) = 2
    /\ <<"probe_ip_protocol", 4>> \in icmp.w
    /\ "probe_dns_lookup_time_seconds" \in ICMPWritten

(***************************************************************************)
(* ProbeDNS: claims C14 to C16.                                            *)
(***************************************************************************)
\* C14: every return of ProbeDNS has exported the three record counts:
\* the lengths of the answer, authority and additional sections of the
\* response when one was received, whatever the validation made of it, and
\* 0 when none was received (unsupported transport, resolution failure,
\* invalid query type, exchange error).
C14_CountsAlways ==
    dns.pc = "done" =>
        /\ dns.gauges.set
        /\ IF dns.response.nil
           THEN /\ dns.gauges.answer = 0 /\ dns.gauges.authority = 0
                /\ dns.gauges.additional = 0
           ELSE /\ dns.gauges.answer = Len(dns.response.Answer)
                /\ dns.gauges.authority = Len(dns.response.Ns)
                /\ dns.gauges.additional = Len(dns.response.Extra)

\* A response with two answers and one additional record failed the
\* validation, and its counts are exported.
C14_Witness ==
    /\ dns.pc = "done" /\ ~dns.success /\ ~dns.response.nil
    /\ dns.gauges.set
    /\ dns.gauges.answer = 2 /\ dns.gauges.authority = 0 /\ dns.gauges.additional = 1

\* The sections of the response are not validated.
NoRRValidation ==
    /\ dns.config.ValidateAnswer = NoValidator
    /\ dns.config.ValidateAuthority = NoValidator
    /\ dns.config.ValidateAdditional = NoValidator

\* C15 as stated: with an empty ValidRcodes, unset or an explicitly empty
\* list, exactly NOERROR is accepted; with a non-empty list of known names
\* a response code is accepted if and only if it is the code of a listed
\* name.
C15_RcodeAccepted ==
    (/\ dns.pc = "done" /\ ~dns.response.nil /\ NoRRValidation
     /\ Range(dns.config.ValidRcodes.names) \subseteq KnownRcodes)
    => (dns.success <=>
          IF dns.config.ValidRcodes.names = <<>>
          THEN dns.response.Rcode = 0
          ELSE dns.response.Rcode \in {RcodeOf(n) : n \in Range(dns.config.ValidRcodes.names)})

\* The expressions of a validator all compile.
AllCompile(v) ==
    \A e \in Range(v.FailIfMatchesRegexp) \cup Range(v.FailIfNotMatchesRegexp) : Compiles(e)

\* What the claim lets pass: an empty record set unless an expression has
\* to match; a non-empty one when no record matches an expression of
\* FailIfMatchesRegexp and every record matches every expression of
\* FailIfNotMatchesRegexp.
SectionPasses(rrs, v) ==
    IF rrs = <<>> THEN v.FailIfNotMatchesRegexp = <<>>
    ELSE \A k \in 1..Len(rrs) :
            /\ \A e \in Range(v.FailIfMatchesRegexp) : ~Matches(e, rrs[k])
            /\ \A e \in Range(v.FailIfNotMatchesRegexp) : Matches(e, rrs[k])

\* C16 as stated: a response whose code is accepted is valid if and only if
\* each of its three sections passes its validator: an empty section fails
\* only if the validator has a FailIfNotMatchesRegexp expression, a
\* non-empty one passes if and only if no record matches a
\* FailIfMatchesRegexp expression and every record matches every
\* FailIfNotMatchesRegexp expression.
C16_SectionsPass ==
    (/\ dns.pc = "done" /\ ~dns.response.nil
     /\ dns.config.ValidRcodes = NilRcodes /\ dns.response.Rcode = 0)
    => (dns.success <=>
          /\ SectionPasses(dns.response.Answer, dns.config.ValidateAnswer)
          /\ SectionPasses(dns.response.Ns, dns.config.ValidateAuthority)
          /\ SectionPasses(dns.response.Extra, dns.config.ValidateAdditional))

\* A non-empty section also fails when an expression of its validator does
\* not compile.
SectionValid(rrs, v) ==
    SectionPasses(rrs, v) /\ (rrs # <<>> => AllCompile(v))

\* C16, amended: an empty section fails only if the validator has a
\* FailIfNotMatchesRegexp expression; a non-empty one passes if and only if
\* every expression of the validator compiles, no record matches a
\* FailIfMatchesRegexp expression and every record matches every
\* FailIfNotMatchesRegexp expression.
C16_SectionsValidated ==
    (/\ dns.pc = "done" /\ ~dns.response.nil
     /\ dns.config.ValidRcodes = NilRcodes /\ dns.response.Rcode = 0)
    => (dns.success <=>
          /\ SectionValid(dns.response.Answer, dns.config.ValidateAnswer)
          /\ SectionValid(dns.response.Ns, dns.config.ValidateAuthority)
          /\ SectionValid(dns.response.Extra, dns.config.ValidateAdditional))

\* An answer section without records fails a validator that wants a match.
C16_Witness ==
    /\ dns.pc = "done" /\ ~dns.response.nil /\ ~dns.success
    /\ dns.config.ValidRcodes = NilRcodes /\ dns.response.Rcode = 0
    /\ dns.response.Answer = <<>>
    /\ dns.config.ValidateAnswer = [FailIfMatchesRegexp |-> <<>>, FailIfNotMatchesRegexp |-> <<"ok">>]
    /\ dns.config.ValidateAuthority = NoValidator
    /\ dns.config.ValidateAdditional = NoValidator

(***************************************************************************)
(* The configuration: claims C17 to C19.                                   *)
(***************************************************************************)
\* The secrets a configuration holds.
SecretsOf(c) == {c.password, c.bearer_token} \ {""}

\* The values a text shows.
ValuesIn(text) == {text[i][2] : i \in DOMAIN text}

\* C17: the marshalled text of a loaded configuration contains none of its
\* secrets, and two configurations that differ only in the value of a
\* bearer token or a basic-auth password marshal to the same text.
C17_SecretsHidden ==
    marshalled.done =>
        /\ ValuesIn(marshalled.textA) \cap SecretsOf(marshalled.a) = {}
        /\ ValuesIn(marshalled.textB) \cap SecretsOf(marshalled.b) = {}
        /\ marshalled.textA = marshalled.textB

\* Two configurations with the same user and different passwords and
\* bearer tokens were marshalled.
C17_Witness ==
    /\ marshalled.done
    /\ marshalled.a.username = "user"
    /\ marshalled.a.bearer_token = "mysecret" /\ marshalled.b.bearer_token = "hunter2"
    /\ marshalled.a.password = "s3cr3t" /\ marshalled.b.password = "mysecret"
    /\ Len(marshalled.textA) = 3

\* An entry of the list weighs more than 0; an entry without a weight
\* weighs 1.
NonZero(e) == e.weight # "0.0"

EntriesFor(token) == {i \in DOMAIN encoding.entries : encoding.entries[i].token = token}

\* What the claim accepts: an empty compression, an entry for the token with
\* a weight that is not 0, or no entry for the token and a "*" entry with a
\* weight that is not 0.
AcceptedByList ==
    \/ encoding.compression = ""
    \/ \E i \in EntriesFor(encoding.compression) : NonZero(encoding.entries[i])
    \/ /\ EntriesFor(encoding.compression) = {}
       /\ \E i \in EntriesFor("*") : NonZero(encoding.entries[i])

\* C18 as stated: isCompressionAcceptEncodingValid is true if and only if
\* the compression is empty, or the list has an entry for the token with a
\* non-zero weight, or it has none and has a "*" entry with a non-zero
\* weight.
C18_AcceptedIffListed ==
    (encoding.called /\ encoding.test = 0) => (encoding.result <=> AcceptedByList)

\* C18, amended: isCompressionAcceptEncodingValid is also true when there
\* is no Accept-Encoding header at all; with a header it is true if and only
\* if the compression is empty, or the list has an entry for the token with
\* a non-zero weight, or it has none and has a "*" entry with a non-zero
\* weight.  The entry for the token governs wherever it stands in the list,
\* blanks around tokens and weights change nothing, and the cases of
\* TestIsEncodingAcceptable come out as the test expects.
C18_AcceptedIffListedOrNoHeader ==
    /\ (encoding.called /\ encoding.test = 0) =>
          (encoding.result <=> (encoding.entries = <<>> \/ AcceptedByList))
    /\ (encoding.called /\ encoding.test # 0) =>
          encoding.result = TestCases[encoding.test].expected

\* A "*" entry with weight 1 stands before the entry that rejects the
\* token, both written with blanks, and the compression is refused.
C18_Witness ==
    /\ encoding.called /\ encoding.test = 0
    /\ encoding.compression = "br"
    /\ Len(encoding.entries) = 2
    /\ encoding.entries[1] = [token |-> "*", weight |-> "1.0", blanks |-> TRUE]
    /\ encoding.entries[2] = [token |-> "br", weight |-> "0.0", blanks |-> TRUE]
    /\ ~encoding.result

\* C19: the validation accepts the TTL of an ICMP module if and only if
\* 0 <= TTL <= 255; it rejects a negative TTL with '"ttl" cannot be
\* negative' and a TTL above 255 with '"ttl" cannot exceed 255'.
C19_TTLRange ==
    (validated.done /\ validated.m.Prober = "icmp") =>
        /\ validated.err = "nil" <=> (validated.m.TTL >= 0 /\ validated.m.TTL <= 255)
        /\ validated.m.TTL < 0 => validated.err = "\"ttl\" cannot be negative"
        /\ validated.m.TTL > 255 => validated.err = "\"ttl\" cannot exceed 255"

\* The TTL 255 was accepted.
C19_Witness ==
    /\ validated.done /\ validated.m.Prober = "icmp"
    /\ validated.m.TTL = 255
    /\ validated.err = "nil"

(***************************************************************************)
(* Diagnostics: claim C20.                                                 *)
(***************************************************************************)
\* C20 as stated: whenever probeHTTP or probeICMP returns failure, the
\* diagnostic it returns is not empty.
C20_FailuresClassified ==
    /\ (http.pc = "done" /\ ~http.success) => http.probe_error # ""
    /\ (icmp.pc = "done" /\ ~icmp.success) => icmp.probe_error # ""

(***************************************************************************)
(* One attempt per probe: claim C21.                                       *)
(***************************************************************************)
\* C21 as stated: within one probe invocation at most one request is
\* transmitted, by any of the three probers.
C21_AtMostOneRequest ==
    /\ icmp.sent <= 1
    /\ dns.exchanges <= 1
    /\ http.via <= 1

\* C21, amended: probeICMP writes at most one echo request and writes none
\* while it reads; ProbeDNS performs at most one exchange; probeHTTP calls
\* client.Do once, and that one call sends the request and one more request
\* for every redirect it follows, never one after a response that is no
\* redirect or after a failure.  A probe that has returned has one outcome,
\* which nothing changes before the next probe starts.
C21_OneAttempt ==
    /\ [](icmp.sent <= 1 /\ dns.exchanges <= 1)
    /\ [][icmp.pc = "read" => icmp'.sent = icmp.sent]_vars
    /\ [][(http'.pc = "do" /\ http.pc # "do") => (http.pc = "newrequest" /\ http'.via = 1)]_vars
    /\ [][(http.pc = "do" /\ http'.via # http.via)
            => (http'.pc = "do" /\ http'.via = http.via + 1 /\ http'.resp.nil /\ ~http'.err)]_vars
    /\ [][(http.pc \in {"body", "finish", "done"} /\ http'.pc # "idle") => http'.via = http.via]_vars
    /\ [][(icmp.pc = "done" /\ icmp' # icmp) => icmp' = ICMPIdle]_vars
    /\ [][(dns.pc = "done" /\ dns' # dns) => dns' = DNSIdle]_vars
    /\ [][(http.pc = "done" /\ http' # http) => http' = HTTPIdle]_vars

\* An HTTP probe followed one redirect and succeeded on the answer to its
\* second request.
C21_Witness ==
    /\ http.pc = "done" /\ http.success
    /\ http.via = 2 /\ http.redirects = 1
    /\ http.resp.StatusCode = 200

(***************************************************************************)
(* The Host header: claim C22.                                             *)
(***************************************************************************)
\* The key is "host" in some spelling.
IsHostKey(key) == [i \in 1..Len(key) |-> Lower(key[i])] = <<"h", "o", "s", "t">>

HostHeaders == {i \in DOMAIN request.headers : IsHostKey(request.headers[i].key)}

\* C22 as stated: when a configured header's key equals "Host" ignoring
\* letter case, the authority of the request is the value of such a header
\* and no Host header is set; every other configured header is set on the
\* request with its value.
C22_HostAnyCase ==
    request.done =>
        /\ HostHeaders # {} =>
              /\ request.Host \in {request.headers[i].value : i \in HostHeaders}
              /\ <<"H", "o", "s", "t">> \notin DOMAIN request.Header
        /\ \A i \in DOMAIN request.headers \ HostHeaders :
              /\ CanonicalMIMEHeaderKey(request.headers[i].key) \in DOMAIN request.Header
              /\ request.Header[CanonicalMIMEHeaderKey(request.headers[i].key)] = request.headers[i].value

(***************************************************************************)
(* The forced families of probeICMP: claim C23.                            *)
(***************************************************************************)
\* The one family a module with protocol icmp4 or icmp6 resolves in.
ForcedFamily == IF icmp.Protocol = "icmp4" THEN "ip4" ELSE "ip6"

\* C23: with protocol icmp4 (icmp6) probeICMP resolves the target in IPv4
\* (IPv6) only, whatever PreferredIPProtocol the module names: it makes one
\* resolution at most, in that family, never one in the other family, and
\* when that resolution has failed it has returned the resolution error.
C23_ForcedFamily ==
    icmp.Protocol \in {"icmp4", "icmp6"} =>
        /\ icmp.pc # "fallback"
        /\ Len(icmp.lookups) <= 1
        /\ \A k \in DOMAIN icmp.lookups : icmp.lookups[k].network = ForcedFamily
        /\ icmp.pc # "resolve" => Len(icmp.lookups) = 1
        /\ (Len(icmp.lookups) = 1 /\ ~icmp.lookups[1].ok) =>
              /\ icmp.pc = "done" /\ ~icmp.success
              /\ icmp.probe_error = "Error resolving address"
              /\ icmp.sent = 0
        /\ (icmp.pc = "done" /\ icmp.probe_error = "Error resolving address") =>
              ~icmp.lookups[1].ok

\* A module with protocol icmp4 that prefers IPv6 failed to resolve in IPv4
\* and returned the resolution error without asking for IPv6.
C23_Witness ==
    /\ icmp.pc = "done"
    /\ icmp.config = [Protocol |-> "icmp4", PreferredIPProtocol |-> "ip6"]
    /\ icmp.lookups = <<[network |-> "ip4", ok |-> FALSE]>>
    /\ ~icmp.success /\ icmp.probe_error = "Error resolving address"

(***************************************************************************)
(* The DNS query: claim C24.                                               *)
(***************************************************************************)
\* ProbeDNS has built its query message.
QueryBuilt == dns.pc = "exchange" \/ dns.exchanges >= 1

\* C24 as stated: the query message ProbeDNS sends carries the configured
\* query name in fully-qualified form, the configured query type (ANY when
\* none is configured) and the configured query class (INET when none is
\* configured).
C24_QueryAsConfigured ==
    QueryBuilt =>
        /\ dns.msg.Name # <<>> /\ dns.msg.Name[Len(dns.msg.Name)] = "."
        /\ dns.msg.Name \in {dns.config.QueryName, dns.config.QueryName \o <<".">>}
        /\ dns.msg.Qtype = IF dns.config.QueryType = "" THEN "ANY" ELSE dns.config.QueryType
        /\ dns.msg.Qclass = IF dns.config.QueryClass = "" THEN "IN" ELSE dns.config.QueryClass

(***************************************************************************)
(* Concurrent probes and calls: claims C25 and C26.                        *)
(***************************************************************************)
\* The probes that returned success out of their read loop.
Succeeded == {p \in Probes : icmpProbes[p].pc = "done" /\ icmpProbes[p].success}

\* The sequence numbers drawn after the probe drew its own.
DrawnSince(p) ==
    Cardinality({q \in Probes : icmpProbes[q].seq > icmpProbes[p].seq}) + others.drawn

\* C25 as stated: for any number of concurrent probes of one target, the
\* echo reply a probe accepts as its own is never the answer to the request
\* of a different probe.
C25_NoConfusion == \A p \in Succeeded : icmpProbes[p].from = p

\* C25, amended: concurrent probes hold different sequence numbers and a
\* probe accepts no reply to the request of another as long as fewer than
\* 65536 sequence numbers are drawn after its own while it waits; the reply
\* to the request that drew the 65536th, which carries the probe's own
\* number again, it accepts.
C25_NoConfusionWithinPeriod ==
    /\ \A p, q \in Probes :
          (p # q /\ icmpProbes[p].seq # -1 /\ icmpProbes[q].seq # -1)
          => icmpProbes[p].seq # icmpProbes[q].seq
    /\ \A p \in Succeeded :
          /\ icmpProbes[p].from # p => DrawnSince(p) = 65536
          /\ DrawnSince(p) < 65536 => icmpProbes[p].from = p
    /\ \A p \in Probes :
          (icmpProbes[p].pc = "read" /\ others.seq = icmpProbes[p].seq) => DrawnSince(p) = 65536

\* Both probes have sent their requests, and the second one has accepted
\* its reply while the first one still waits.
C25_Witness ==
    /\ icmpProbes[1].pc = "read" /\ icmpProbes[1].sent
    /\ icmpProbes[2].pc = "done" /\ icmpProbes[2].success /\ icmpProbes[2].from = 2
    /\ icmpProbes[1].seq = 2 /\ icmpProbes[2].seq = 1

\* The calls that have returned, and those that have incremented the counter.
Called == {p \in Probes : icmpProbes[p].pc = "write"}
Stored == {p \in Probes : icmpProbes[p].pc \in {"return", "unlock", "write"}}

\* C26: under any interleaving of k concurrent getICMPSequence calls from
\* counter value c no increment is lost: the counter stands at c plus the
\* number of calls that have incremented it, modulo 2^16, and so at
\* (c + k) mod 2^16 in the end; the calls return the values (c+1 .. c+k)
\* mod 2^16, each once; one call at a time is between Lock and Unlock; and
\* every call returns with the mutex released, none blocks forever.
C26_AtomicIncrement ==
    /\ [](icmpSequence = (others.start + Cardinality(Stored)) % 65536)
    /\ [](Cardinality({p \in Probes : icmpProbes[p].pc \in {"load", "store", "return", "unlock"}}) <= 1)
    /\ []({icmpProbes[p].seq : p \in Called} =
            {(others.start + i) % 65536 : i \in 1..Cardinality(Called)})
    /\ [](\A p, q \in Called : p # q => icmpProbes[p].seq # icmpProbes[q].seq)
    /\ [](Called = Probes => icmpSequenceMutex = 0)
    /\ \A p \in Probes : (icmpProbes[p].pc = "idle") ~> (icmpProbes[p].pc = "write")
    /\ <>[](icmpSequenceMutex = 0 /\ icmpSequence = (others.start + NProbes) % 65536)

\* Two calls from 65535 have returned 0 and 1, the counter having wrapped.
C26_Witness ==
    /\ others.start = 65535
    /\ Called = Probes
    /\ icmpProbes[1].seq = 1 /\ icmpProbes[2].seq = 0
    /\ icmpSequence = (65535 + NProbes) % 65536
    /\ icmpSequenceMutex = 0

====
